---------------------------- MODULE Spec2Model ----------------------------
(***************************************************************************)
(* Model of the turbopack trace server (crates/turbopack-trace-server):    *)
(* the span store with its write-once memoization cells (store.rs,         *)
(* span.rs), the view projector (viewer.rs) and the per-connection session *)
(* threads (server.rs).                                                    *)
(*                                                                         *)
(* A OnceLock<T> cell is a sequence of length <= 1: << >> is the unset     *)
(* cell, <<v>> the cell holding v.  Store.spans, a Vec<Span>, is a         *)
(* function on 0..len-1; position 0 is the root sentinel.                  *)
(***************************************************************************)
EXTENDS Integers, Sequences, FiniteSets, TLC

VARIABLES
    spans,      \* Store.spans
    outdated,   \* the outdated_spans set of the batch the writer is applying
    writing,    \* TRUE while the writer is inside a batch (before invalidation)
    calls,      \* history: per span position, the calls made on it, in call order
    created,    \* history: the add_span calls since the last reset, with the index each returned
    was_reset,  \* history: TRUE from a Store::reset to the end of the batch after it
    mutated,    \* history: the spans whose events changed in the batch being applied
    lastBatch,  \* history: << >>, or right after an invalidation <<[mutated, filled]>>
    span_options, \* Viewer.span_options
    generation, \* StoreContainer: the store generation
    view_rect,  \* ConnectionState.view_rect
    last_update_generation, \* ConnectionState.last_update_generation
    expanded,   \* the viewer's expand map written by set_expanded_state
    mutex,      \* the Mutex<ConnectionState>: "free", its holder, or "poisoned"
    should_shutdown, \* the AtomicBool shared by the two threads
    pc,         \* where the handler thread and the push thread are
    message,    \* handler thread: the client message being handled
    local,      \* per thread, send_update's locals: updates left to send, count
    socket,     \* "open" until the connection is shut down or breaks
    wire,       \* history: the messages sent on the socket, in order
    received,   \* history: the number of client messages received
    projections, \* history: the number of compute_update calls of the connection
    computed,   \* history: per projection, the thread and the state it was computed from
    cache_directory, \* turborepo-cache: the files of FSCache.cache_directory, by name
    anchor_files,    \* turborepo-cache: the files under the anchor, by path
    last_call   \* turborepo-cache: the last call on the FSCache and what it returned

storeVars == <<spans, outdated, writing, calls, created, was_reset, mutated, lastBatch>>
connectionVars == <<view_rect, last_update_generation, expanded>>
threadVars == <<mutex, should_shutdown, pc, message, local>>
cacheVars == <<cache_directory, anchor_files, last_call>>
socketVars == <<socket, wire, received, projections, computed, cacheVars>>
serverVars == <<generation, connectionVars, threadVars, socketVars>>
sessionVars == <<span_options, serverVars>>
vars == <<storeVars, sessionVars>>

(***************************************************************************)
(* Bounds of the model and input sets.                                     *)
(***************************************************************************)
MaxSpans == 2         \* spans added between two resets
MaxSelfTimeCalls == 1 \* add_self_time calls between two resets
MaxGraphSpans == 4    \* spans added where graph() is read
MaxGraphTimesSpans == 3 \* spans added where the times of SpanGraphs are read
MaxViewSpans == 4     \* spans added where the store is projected
MaxViewOptions == 1   \* entries of Viewer.span_options

Starts == {0, 5}
SelfTimeInputs == {<<1, 4>>}
PlainKind == [name |-> "a", args |-> << >>]
ThreadKind == [name |-> "thread", args |-> << >>]
FunctionKind == [name |-> "turbo_tasks::function", args |-> <<(<<"name", "a">>)>>]
OtherKind == [name |-> "b", args |-> << >>]
StoreKinds == {PlainKind, ThreadKind}
FunctionBKind == [name |-> "turbo_tasks::function", args |-> <<(<<"name", "b">>)>>]
GraphKinds == {FunctionKind, FunctionBKind}
GraphStarts == {0}

(***************************************************************************)
(* Program constants.                                                      *)
(***************************************************************************)
\* u64::MAX: TLC integers are 32 bits wide, so the greatest of them stands
\* for it; it is only ever compared, never added to.
U64_MAX == 2147483647
\* Option<SpanIndex>::None.  SpanIndex is NonZeroUsize, so 0 is free for it.
NoParent == 0

Max(a, b) == IF a >= b THEN a ELSE b

RECURSIVE SumSeq(_)
SumSeq(s) == IF s = << >> THEN 0 ELSE Head(s) + SumSeq(Tail(s))

RECURSIVE MaxSeq(_)
\* Iterator::max().unwrap_or_default() over u64 / u32 values
MaxSeq(s) == IF s = << >> THEN 0 ELSE Max(Head(s), MaxSeq(Tail(s)))

Range(s) == {s[k] : k \in DOMAIN s}

(***************************************************************************)
(* span.rs: Span and SpanEvent                                             *)
(***************************************************************************)
SelfTimeEvent(start, end) == [type |-> "SelfTime", start |-> start, end |-> end, id |-> 0]
ChildEvent(id) == [type |-> "Child", start |-> 0, end |-> 0, id |-> id]

Span(parent, start, ignore_self_time, self_end, name, args) ==
    [parent |-> parent, start |-> start, ignore_self_time |-> ignore_self_time,
     self_end |-> self_end, category |-> "", name |-> name, args |-> args,
     events |-> << >>, self_time |-> 0,
     end |-> << >>, max_depth |-> << >>, graph |-> << >>, total_time |-> << >>,
     corrected_self_time |-> << >>, corrected_total_time |-> << >>]

(***************************************************************************)
(* store.rs: Store::new, reset, add_span, add_self_time,                   *)
(* invalidate_outdated_spans.  Each takes the spans vector (and the        *)
(* outdated set) and yields the new one.                                   *)
(***************************************************************************)
Store_new == [i \in {0} |-> Span(NoParent, 0, FALSE, U64_MAX, "(root)", << >>)]

VecLen(sp) == Cardinality(DOMAIN sp)

\* Vec::push on a span's events
PushEventFront(events, e) == <<e>> \o events
PushEvent(events, e) == Append(events, e)

\* spans.truncate(1) alone
reset_KeepEvents(sp) == [i \in {0} |-> sp[0]]
reset(sp) == [i \in {0} |-> [sp[0] EXCEPT !.events = << >>]]

\* the index add_span returns: SpanIndex::new(self.spans.len())
NextIndexReuse(sp) == IF VecLen(sp) > 1 THEN VecLen(sp) - 1 ELSE 1
NextIndex(sp) == VecLen(sp)

\* the slot whose events receive the Child event
ParentSlot(parent) == IF parent # NoParent THEN parent ELSE 0

add_span(sp, parent, start, name, args) ==
    LET id == NextIndex(sp)
        pushed == [i \in 0..id |->
                    IF i \in DOMAIN sp /\ i # id THEN sp[i]
                    ELSE Span(parent, start, name = "thread", start, name, args)]
        slot == ParentSlot(parent)
    IN  [pushed EXCEPT ![slot].events = PushEvent(pushed[slot].events, ChildEvent(id))]

add_span_outdated(od, parent) == IF parent # NoParent THEN od \cup {parent} ELSE od

\* the early return of add_self_time
SelfTimeIgnoredNever(span) == FALSE
SelfTimeIgnored(span) == span.ignore_self_time

add_self_time_KeepEnd(sp, span_index, start, end) ==
    IF SelfTimeIgnored(sp[span_index]) THEN sp
    ELSE [sp EXCEPT ![span_index].self_time = @ + (end - start),
                    ![span_index].events = PushEvent(@, SelfTimeEvent(start, end))]

\* self_end follows the last call
add_self_time_LastEnd(sp, span_index, start, end) ==
    IF SelfTimeIgnored(sp[span_index]) THEN sp
    ELSE [sp EXCEPT ![span_index].self_time = @ + (end - start),
                    ![span_index].events = PushEvent(@, SelfTimeEvent(start, end)),
                    ![span_index].self_end = end]

add_self_time(sp, span_index, start, end) ==
    IF SelfTimeIgnored(sp[span_index]) THEN sp
    ELSE [sp EXCEPT ![span_index].self_time = @ + (end - start),
                    ![span_index].events = PushEvent(@, SelfTimeEvent(start, end)),
                    ![span_index].self_end = Max(@, end)]

add_self_time_outdated(sp, od, span_index) ==
    IF SelfTimeIgnored(sp[span_index]) THEN od ELSE od \cup {span_index}

\* the take() calls of one loop iteration of invalidate_outdated_spans
TakeCellsKeepTotal(span) ==
    [span EXCEPT !.end = << >>, !.corrected_self_time = << >>,
                 !.corrected_total_time = << >>, !.graph = << >>]
TakeCells(span) ==
    [span EXCEPT !.end = << >>, !.total_time = << >>, !.corrected_self_time = << >>,
                 !.corrected_total_time = << >>, !.graph = << >>]

\* the loop's second break: the parent is itself in the outdated set
StopAtAnyParent(od, parent) == TRUE
StopAtOutdatedParent(od, parent) == parent \in od

RECURSIVE InvalidationWalk(_, _, _)
\* the positions one walk of the inner loop clears, starting at span id
InvalidationWalk(sp, od, id) ==
    LET parent == sp[id].parent
    IN  IF parent = NoParent THEN {id}
        ELSE IF StopAtOutdatedParent(od, parent) THEN {id}
        ELSE {id} \cup InvalidationWalk(sp, od, parent)

invalidate_outdated_spans(sp, od) ==
    LET cleared == UNION {InvalidationWalk(sp, od, id) : id \in od}
    IN  [i \in DOMAIN sp |-> IF i \in cleared THEN TakeCells(sp[i]) ELSE sp[i]]


(***************************************************************************)
(* store.rs: Store::root_spans, Store::span, SpanRef                       *)
(***************************************************************************)
RECURSIVE ChildIds(_)
\* filter_map over events keeping the Child ids, in event order
ChildIds(events) ==
    IF events = << >> THEN << >>
    ELSE IF Head(events).type = "Child" THEN <<Head(events).id>> \o ChildIds(Tail(events))
    ELSE ChildIds(Tail(events))

children(sp, i) == ChildIds(sp[i].events)
root_spans(sp) == ChildIds(sp[0].events)

\* SpanRef::id
SpanRef_id(index) == index * 2
\* SpanGraphRef::id
SpanGraphRef_id_Even(first_index) == first_index * 2
SpanGraphRef_id(first_index) == first_index * 2 + 1

\* Store::span: << >> is None, otherwise <<[index, is_graph]>>
Store_span_NoShift(sp, id) ==
    IF id \in DOMAIN sp THEN <<[index |-> id, is_graph |-> (id % 2 = 1)]>> ELSE << >>
Store_span(sp, id) ==
    LET is_graph == (id % 2 = 1)
        index == id \div 2
    IN  IF index \in DOMAIN sp THEN <<[index |-> index, is_graph |-> is_graph]>> ELSE << >>

SpanRef_parent(sp, i) == sp[i].parent

\* SpanRef::group_name (its cell depends on immutable fields only)
ArgNamed(args, key) ==
    LET hits == SelectSeq(args, LAMBDA kv : kv[1] = key)
    IN  IF hits = << >> THEN << >> ELSE <<hits[1][2]>>

ResolveNames == {"turbo_tasks::resolve_call", "turbo_tasks::resolve_trait_call"}

group_name(sp, i) ==
    LET name == sp[i].name
        arg == ArgNamed(sp[i].args, "name")
    IN  IF name = "turbo_tasks::function"
        THEN (IF arg # << >> THEN <<"", arg[1]>> ELSE <<"", name>>)
        ELSE IF name \in ResolveNames
        THEN (IF arg # << >> THEN <<"*", arg[1]>> ELSE <<"", name>>)
        ELSE <<"", name>>

\* SpanRef::nice_name: (category, title); format! results are kept as tuples
nice_name(sp, i) ==
    LET name == sp[i].name
        arg == ArgNamed(sp[i].args, "name")
    IN  IF arg # << >>
        THEN (IF name \in ResolveNames
              THEN [category |-> <<name, " ", sp[i].category>>, title |-> <<"*", arg[1]>>]
              ELSE [category |-> <<name, " ", sp[i].category>>, title |-> <<arg[1]>>])
        ELSE [category |-> <<sp[i].category>>, title |-> <<name>>]

MapSeq(s, Op(_)) == [k \in DOMAIN s |-> Op(s[k])]

(***************************************************************************)
(* Memoized reads.  X_val is what OnceLock::get_or_init returns on the     *)
(* given store: the cell's content when set, otherwise the closure's       *)
(* result.  X_visit is the set of spans whose X cell the call initializes, *)
(* and X_read the store after the call.  A cell set during a call holds    *)
(* exactly the value the closure yields on the store at the call, which    *)
(* the store's read lock keeps unchanged for the duration of the call.     *)
(***************************************************************************)
RECURSIVE end_val(_, _)
end_val(sp, i) ==
    IF sp[i].end # << >> THEN sp[i].end[1]
    ELSE Max(sp[i].self_end, MaxSeq(MapSeq(children(sp, i), LAMBDA c : end_val(sp, c))))

RECURSIVE end_visit(_, _)
end_visit(sp, i) ==
    IF sp[i].end # << >> THEN {}
    ELSE {i} \cup UNION {end_visit(sp, c) : c \in Range(children(sp, i))}

end_read(sp, i) ==
    LET v == end_visit(sp, i)
    IN  [j \in DOMAIN sp |-> IF j \in v THEN [sp[j] EXCEPT !.end = <<end_val(sp, j)>>] ELSE sp[j]]

self_time(sp, i) == sp[i].self_time

RECURSIVE total_time_val(_, _)
total_time_val(sp, i) ==
    IF sp[i].total_time # << >> THEN sp[i].total_time[1]
    ELSE SumSeq(MapSeq(children(sp, i), LAMBDA c : total_time_val(sp, c))) + self_time(sp, i)

RECURSIVE total_time_visit(_, _)
total_time_visit(sp, i) ==
    IF sp[i].total_time # << >> THEN {}
    ELSE {i} \cup UNION {total_time_visit(sp, c) : c \in Range(children(sp, i))}

total_time_read(sp, i) ==
    LET v == total_time_visit(sp, i)
    IN  [j \in DOMAIN sp |->
            IF j \in v THEN [sp[j] EXCEPT !.total_time = <<total_time_val(sp, j)>>] ELSE sp[j]]

corrected_self_time_val(sp, i) ==
    IF sp[i].corrected_self_time # << >> THEN sp[i].corrected_self_time[1]
    ELSE self_time(sp, i)

corrected_self_time_read(sp, i) ==
    [sp EXCEPT ![i].corrected_self_time = <<corrected_self_time_val(sp, i)>>]

corrected_total_time_val(sp, i) ==
    IF sp[i].corrected_total_time # << >> THEN sp[i].corrected_total_time[1]
    ELSE total_time_val(sp, i)

corrected_total_time_read(sp, i) ==
    IF sp[i].corrected_total_time # << >> THEN sp
    ELSE [total_time_read(sp, i) EXCEPT ![i].corrected_total_time = <<total_time_val(sp, i)>>]

RECURSIVE max_depth_val(_, _)
max_depth_val(sp, i) ==
    IF sp[i].max_depth # << >> THEN sp[i].max_depth[1]
    ELSE MaxSeq(MapSeq(children(sp, i), LAMBDA c : max_depth_val(sp, c) + 1))

RECURSIVE max_depth_visit(_, _)
max_depth_visit(sp, i) ==
    IF sp[i].max_depth # << >> THEN {}
    ELSE {i} \cup UNION {max_depth_visit(sp, c) : c \in Range(children(sp, i))}

max_depth_read(sp, i) ==
    LET v == max_depth_visit(sp, i)
    IN  [j \in DOMAIN sp |->
            IF j \in v THEN [sp[j] EXCEPT !.max_depth = <<max_depth_val(sp, j)>>] ELSE sp[j]]

(***************************************************************************)
(* store.rs: SpanRef::graph and SpanGraphRef.  A SpanGraph is the record   *)
(* [root_spans, recursive_spans].  The IndexMap of the grouping loop is a  *)
(* sequence of [key, root_spans, recursive_spans] in insertion order.      *)
(*                                                                         *)
(* The OnceLock cells inside a SpanGraph (events, max_depth, self_time,    *)
(* total_time) are owned, through Arc, by the graph cell of the host span  *)
(* and go away with it; the SpanGraphRef accessors are therefore given as  *)
(* values computed on the store at the time of the call, reading the       *)
(* span-level cells exactly where the code goes through a memoized         *)
(* SpanRef accessor.                                                       *)
(***************************************************************************)
RECURSIVE GroupBfs(_, _, _)
\* the while-let loop over the VecDeque: the spans pushed to recursive_list
GroupBfsAnyName(sp, queue, name) ==
    IF queue = << >> THEN << >>
    ELSE children(sp, Head(queue)) \o GroupBfs(sp, Tail(queue) \o children(sp, Head(queue)), name)
GroupBfs(sp, queue, name) ==
    IF queue = << >> THEN << >>
    ELSE LET same == SelectSeq(children(sp, Head(queue)),
                               LAMBDA nested : group_name(sp, nested) = name)
         IN  same \o GroupBfs(sp, Tail(queue) \o same, name)

\* map.entry(name).or_default(), then the pushes to list and recursive_list
MapEntryPush(map, name, root, recursive) ==
    IF \E k \in DOMAIN map : map[k].key = name
    THEN [k \in DOMAIN map |->
            IF map[k].key = name
            THEN [map[k] EXCEPT !.root_spans = Append(@, root),
                                !.recursive_spans = @ \o recursive]
            ELSE map[k]]
    ELSE Append(map, [key |-> name, root_spans |-> <<root>>, recursive_spans |-> recursive])

RECURSIVE GroupSpans(_, _, _)
\* the for loop over the spans to group, threading the map
GroupSpans(sp, list, map) ==
    IF list = << >> THEN map
    ELSE LET name == group_name(sp, Head(list))
         IN  GroupSpans(sp, Tail(list),
                        MapEntryPush(map, name, Head(list), GroupBfs(sp, <<Head(list)>>, name)))

\* map.into_iter().map(...).collect()
SpanGraphs(map) ==
    [k \in DOMAIN map |->
        [root_spans |-> map[k].root_spans, recursive_spans |-> map[k].recursive_spans]]

graph_val(sp, i) ==
    IF sp[i].graph # << >> THEN sp[i].graph[1]
    ELSE SpanGraphs(GroupSpans(sp, children(sp, i), << >>))

graph_read(sp, i) == [sp EXCEPT ![i].graph = <<graph_val(sp, i)>>]

first_span(g) == g.root_spans[1]
count(g) == Len(g.root_spans) + Len(g.recursive_spans)
recursive_spans(g) == g.root_spans \o g.recursive_spans

RECURSIVE OtherGroupChildren(_, _, _)
OtherGroupChildrenAll(sp, list, self_group) ==
    IF list = << >> THEN << >>
    ELSE children(sp, Head(list)) \o OtherGroupChildren(sp, Tail(list), self_group)
\* the children of each span of list, in order, whose group is not self_group
OtherGroupChildren(sp, list, self_group) ==
    IF list = << >> THEN << >>
    ELSE SelectSeq(children(sp, Head(list)), LAMBDA c : group_name(sp, c) # self_group)
            \o OtherGroupChildren(sp, Tail(list), self_group)

\* SpanGraphRef::events (= children: graph() never yields a SelfTime event)
graph_events(sp, g) ==
    IF count(g) = 1 THEN graph_val(sp, first_span(g))
    ELSE LET self_group == group_name(sp, first_span(g))
         IN  SpanGraphs(GroupSpans(sp,
                 OtherGroupChildren(sp, recursive_spans(g), self_group),
                 << >>))

graph_self_time(sp, g) == SumSeq(MapSeq(recursive_spans(g), LAMBDA m : self_time(sp, m)))

graph_corrected_self_time(sp, g) ==
    SumSeq(MapSeq(recursive_spans(g), LAMBDA m : corrected_self_time_val(sp, m)))

RECURSIVE graph_total_time(_, _)
graph_total_time(sp, g) ==
    SumSeq(MapSeq(graph_events(sp, g), LAMBDA c : graph_total_time(sp, c)))
        + graph_self_time(sp, g)

RECURSIVE graph_corrected_total_time(_, _)
graph_corrected_total_time(sp, g) ==
    SumSeq(MapSeq(graph_events(sp, g), LAMBDA c : graph_corrected_total_time(sp, c)))
        + graph_corrected_self_time(sp, g)

RECURSIVE graph_max_depth(_, _)
graph_max_depth(sp, g) ==
    MaxSeq(MapSeq(graph_events(sp, g), LAMBDA c : graph_max_depth(sp, c) + 1))

\* SpanGraphRef::nice_name
graph_nice_name(sp, g) ==
    IF count(g) = 1 THEN nice_name(sp, first_span(g))
    ELSE [category |-> <<"">>, title |-> group_name(sp, first_span(g))]

RECURSIVE graph_events_visit(_, _)
\* the spans whose graph cell SpanGraphRef::events initializes, for g and,
\* through children(), every SpanGraph below it
graph_events_visit(sp, g) ==
    (IF count(g) = 1 THEN {first_span(g)} ELSE {})
        \cup UNION {graph_events_visit(sp, c) : c \in Range(graph_events(sp, g))}

RECURSIVE graph_members(_, _)
\* the spans whose corrected_self_time graph_corrected_total_time reads
graph_members(sp, g) ==
    Range(recursive_spans(g))
        \cup UNION {graph_members(sp, c) : c \in Range(graph_events(sp, g))}

\* the store after corrected_total_time() on every SpanGraph of graph(i)
graph_times_read(sp, i) ==
    LET gs == graph_val(sp, i)
        hosts == {i} \cup UNION {graph_events_visit(sp, gs[k]) : k \in DOMAIN gs}
        members == UNION {graph_members(sp, gs[k]) : k \in DOMAIN gs}
    IN  [j \in DOMAIN sp |->
            [sp[j] EXCEPT
                !.graph = IF j \in hosts THEN <<graph_val(sp, j)>> ELSE @,
                !.corrected_self_time =
                    IF j \in members THEN <<corrected_self_time_val(sp, j)>> ELSE @]]

(***************************************************************************)
(* viewer.rs: Viewer::set_view_mode and Viewer::compute_update.            *)
(*                                                                         *)
(* A ViewRect is [x, y, width, height, horizontal_pixels].  span_options   *)
(* is a function from SpanIds to SpanOptions.view_mode: << >> is None,     *)
(* <<[mode, inherit]>> is Some((mode, inherit)).  A QueueItem is           *)
(* [kind, index, graph] with kind "Span" (index set) or "SpanGraph"        *)
(* (graph = <<g>>).  The queue is a Vec used as a stack: pop() takes the   *)
(* last element.  lines[n + 1] is line n.                                  *)
(***************************************************************************)
EXTRA_WIDTH_PERCENTAGE == 20
EXTRA_HEIGHT == 5
MIN_VISIBLE_PIXEL_SIZE == 3

RawSpans(sorted) == [kind |-> "RawSpans", sorted |-> sorted]
Aggregated(sorted) == [kind |-> "Aggregated", sorted |-> sorted]

SpanItem(i) == [kind |-> "Span", index |-> i, graph |-> << >>]
SpanGraphItem(g) == [kind |-> "SpanGraph", index |-> 0, graph |-> <<g>>]

QueueItemWithState(item, line_index, start, placeholder, view_mode) ==
    [item |-> item, line_index |-> line_index, start |-> start,
     placeholder |-> placeholder, view_mode |-> view_mode]

set_view_mode(options, id, view_mode) ==
    [k \in DOMAIN options \cup {id} |-> IF k = id THEN view_mode ELSE options[k]]

\* QueueItem::corrected_total_time and QueueItem::max_depth
item_corrected_total_time(sp, item) ==
    IF item.kind = "Span" THEN corrected_total_time_val(sp, item.index)
    ELSE graph_corrected_total_time(sp, item.graph[1])

item_max_depth(sp, item) ==
    IF item.kind = "Span" THEN max_depth_val(sp, item.index)
    ELSE graph_max_depth(sp, item.graph[1])

item_id(item) ==
    IF item.kind = "Span" THEN SpanRef_id(item.index)
    ELSE SpanGraphRef_id(first_span(item.graph[1]))

saturating_sub(a, b) == IF a > b THEN a - b ELSE 0

RECURSIVE InsertByKey(_, _)
\* a stable sort's insertion: after every element whose key is not greater
InsertByKey(sorted, p) ==
    IF sorted = << >> THEN <<p>>
    ELSE IF Head(sorted).key <= p.key THEN <<Head(sorted)>> \o InsertByKey(Tail(sorted), p)
    ELSE <<p>> \o sorted

RECURSIVE StableSort(_, _)
\* sort_by_key / sorted_by_cached_key on [key, value] pairs: stable, ascending
StableSort(sorted, rest) ==
    IF rest = << >> THEN sorted
    ELSE StableSort(InsertByKey(sorted, Head(rest)), Tail(rest))

\* sorted_by_cached_key(|child| Reverse(child.corrected_total_time()))
SortedByTimeDesc(sp, items) ==
    LET pairs == [k \in DOMAIN items |->
                    [key |-> 0 - item_corrected_total_time(sp, items[k]), value |-> items[k]]]
        sorted == StableSort(<< >>, pairs)
    IN  [k \in DOMAIN sorted |-> sorted[k].value]

\* the roots layout: the queue before queue.reverse()
\* every root at its own start
PlaceRootsAtStart(sp, roots, current) ==
    [k \in DOMAIN roots |->
        QueueItemWithState(SpanItem(roots[k]), 0, sp[roots[k]].start, FALSE, RawSpans(FALSE))]

RECURSIVE PlaceRoots(_, _, _)
PlaceRoots(sp, roots, current) ==
    IF roots = << >> THEN << >>
    ELSE LET span == Head(roots)
             at == Max(current, sp[span].start)
         IN  <<QueueItemWithState(SpanItem(span), 0, at, FALSE, RawSpans(FALSE))>>
                \o PlaceRoots(sp, Tail(roots), at + corrected_total_time_val(sp, span))

RootsQueue(sp) ==
    LET rs == root_spans(sp)
        pairs == [k \in DOMAIN rs |-> [key |-> end_val(sp, rs[k]), value |-> rs[k]]]
        sorted == StableSort(<< >>, pairs)
    IN  PlaceRoots(sp, [k \in DOMAIN sorted |-> sorted[k].value], 0)

ReverseSeq(s) == [k \in DOMAIN s |-> s[Len(s) + 1 - k]]

\* get_line: the lines vector grown to hold line i
get_line(lines, i) ==
    IF i >= Len(lines) THEN lines \o [k \in 1..(i + 1 - Len(lines)) |-> << >>] ELSE lines

\* the two horizontal continue statements
\* filter by view rect (vertical)
OutsideVerticallyNever(rect, line_index) == FALSE
OutsideVertically(rect, line_index) ==
    line_index > rect.y + rect.height + EXTRA_HEIGHT

\* filter by view rect (horizontal)
OutsideHorizontallyNever(rect, start, width) == FALSE
OutsideHorizontally(rect, start, width) ==
    \/ start > rect.x + (rect.width * (100 + EXTRA_WIDTH_PERCENTAGE)) \div 100
    \/ start + width
         < saturating_sub(rect.x, (rect.width * EXTRA_WIDTH_PERCENTAGE) \div 100)

RECURSIVE handle_child(_, _, _, _, _, _)
\* handle_child over the children in iteration order, threading current:
\* the children vector of [entry, max_depth, pixel1, pixel2]
handle_child(sp, rect, current, line_index, view_mode, items) ==
    IF items = << >> THEN << >>
    ELSE LET child == Head(items)
             child_width == item_corrected_total_time(sp, child)
             pixel1 == (current * rect.horizontal_pixels) \div rect.width
             pixel2 == ((current + child_width) * rect.horizontal_pixels
                            + rect.width - 1) \div rect.width
         IN  <<[entry |-> QueueItemWithState(child, line_index + 1, current, FALSE, view_mode),
                max_depth |-> item_max_depth(sp, child),
                pixel1 |-> pixel1, pixel2 |-> pixel2]>>
                \o handle_child(sp, rect, current + child_width, line_index,
                                view_mode, Tail(items))

\* span_options.get(&id).and_then(|o| o.view_mode).unwrap_or((view_mode, false))
SelectedViewMode(options, id, view_mode) ==
    IF id \in DOMAIN options /\ options[id] # << >> THEN options[id][1]
    ELSE [mode |-> view_mode, inherit |-> FALSE]

\* the view mode handed to the children
ChildViewModeSelected(selected, view_mode) == selected.mode
ChildViewMode(selected, view_mode) == IF selected.inherit THEN selected.mode ELSE view_mode

\* the items handle_child is called with, in call order
ChildItems(sp, options, item, view_mode) ==
    LET selected == SelectedViewMode(options, item_id(item), view_mode)
        raw == selected.mode.kind = "RawSpans"
        unsorted ==
            IF item.kind = "Span"
            THEN (IF raw
                  THEN [k \in DOMAIN children(sp, item.index) |->
                            SpanItem(children(sp, item.index)[k])]
                  ELSE [k \in DOMAIN graph_val(sp, item.index) |->
                            SpanGraphItem(graph_val(sp, item.index)[k])])
            ELSE (IF raw /\ count(item.graph[1]) > 1
                  THEN [k \in DOMAIN item.graph[1].root_spans |->
                            SpanItem(item.graph[1].root_spans[k])]
                  ELSE [k \in DOMAIN graph_events(sp, item.graph[1]) |->
                            SpanGraphItem(graph_events(sp, item.graph[1])[k])])
    IN  IF selected.mode.sorted THEN SortedByTimeDesc(sp, unsorted) ELSE unsorted

\* the first child, whatever its depth
FirstChild(cs) == cs[1]

\* children.into_iter().max_by_key(|(_, depth, _)| *depth): the last greatest
MaxByDepth(cs) ==
    LET k == CHOOSE j \in DOMAIN cs :
                /\ \A i \in DOMAIN cs : cs[i].max_depth <= cs[j].max_depth
                /\ \A i \in DOMAIN cs : cs[i].max_depth = cs[j].max_depth => i <= j
    IN  cs[k]

\* the verdict on a collision: TRUE when the entry pushed before gives way
DeeperOrEqualWins(last_max_depth, max_depth) == last_max_depth <= max_depth
DeeperWins(last_max_depth, max_depth) == last_max_depth < max_depth

RECURSIVE PushChildren(_, _, _, _)
\* the for loop over the reversed children: the queue after it
PushChildren(queue, cs, last_pixel, last_max_depth) ==
    IF cs = << >> THEN queue
    ELSE LET c == Head(cs)
         IN  IF last_pixel <= c.pixel1 + MIN_VISIBLE_PIXEL_SIZE
             THEN IF DeeperWins(last_max_depth, c.max_depth)
                  THEN PushChildren(
                          Append(SubSeq(queue, 1, Len(queue) - 1),
                                 [c.entry EXCEPT !.placeholder = TRUE]),
                          Tail(cs), c.pixel2, c.max_depth)
                  ELSE PushChildren(
                          IF queue = << >> THEN queue
                          ELSE [queue EXCEPT ![Len(queue)].placeholder = TRUE],
                          Tail(cs), last_pixel, last_max_depth)
             ELSE PushChildren(Append(queue, c.entry), Tail(cs), c.pixel2, c.max_depth)

LineEntry(start, width, ty, item) == [start |-> start, width |-> width, ty |-> ty, item |-> item]

\* the memoized accessors handle_child calls on a child
ChildReads(cs) ==
    {<<IF cs[k].entry.item.kind = "Span" THEN "span" ELSE "graph", cs[k].entry.item>> :
        k \in DOMAIN cs}

\* the cell the children of an item are taken from
ExpandReads(options, item, view_mode) ==
    LET selected == SelectedViewMode(options, item_id(item), view_mode)
        raw == selected.mode.kind = "RawSpans"
    IN  IF item.kind = "Span" THEN (IF raw THEN {} ELSE {<<"host", item>>})
        ELSE (IF raw /\ count(item.graph[1]) > 1 THEN {} ELSE {<<"events", item>>})

RECURSIVE ProcessQueue(_, _, _, _, _, _)
\* the while-let loop: [lines, reads], reads being the accessor calls made
ProcessQueue(sp, rect, options, queue, lines, reads) ==
    IF queue = << >> THEN [lines |-> lines, reads |-> reads]
    ELSE
      LET top == queue[Len(queue)]
          popped == SubSeq(queue, 1, Len(queue) - 1)
      IN
      IF OutsideVertically(rect, top.line_index)
      THEN ProcessQueue(sp, rect, options, popped, lines, reads)
      ELSE
        LET grown == get_line(lines, top.line_index)
            width == item_corrected_total_time(sp, top.item)
        IN
        IF top.line_index > 0 /\ OutsideHorizontally(rect, top.start, width)
        THEN ProcessQueue(sp, rect, options, popped, grown, reads)
        ELSE
          LET selected == SelectedViewMode(options, item_id(top.item), top.view_mode)
              cs == handle_child(sp, rect, top.start, top.line_index,
                                 ChildViewMode(selected, top.view_mode),
                                 ChildItems(sp, options, top.item, top.view_mode))
              read == reads \cup ChildReads(cs) \cup ExpandReads(options, top.item, top.view_mode)
          IN
          IF top.placeholder
          THEN ProcessQueue(sp, rect, options,
                   IF cs = << >> THEN popped
                   ELSE Append(popped, [MaxByDepth(cs).entry EXCEPT !.placeholder = TRUE]),
                   [grown EXCEPT ![top.line_index + 1] =
                        Append(@, LineEntry(top.start, width, "Placeholder", top.item))],
                   read)
          ELSE ProcessQueue(sp, rect, options,
                   PushChildren(popped, ReverseSeq(cs), U64_MAX, 0),
                   [grown EXCEPT ![top.line_index + 1] =
                        Append(@, LineEntry(top.start, width, top.item.kind, top.item))],
                   read)

ViewSpan(id, start, width, category, text, cnt) ==
    [id |-> id, start |-> start, width |-> width, category |-> category, text |-> text,
     count |-> cnt]

\* the closure mapping a LineEntry to its ViewSpan
EntryViewSpanOfItem(sp, entry) ==
    IF entry.item.kind = "Span"
    THEN ViewSpan(SpanRef_id(entry.item.index), entry.start, entry.width,
                  nice_name(sp, entry.item.index).category,
                  nice_name(sp, entry.item.index).title, 1)
    ELSE ViewSpan(SpanGraphRef_id(first_span(entry.item.graph[1])), entry.start, entry.width,
                  graph_nice_name(sp, entry.item.graph[1]).category,
                  graph_nice_name(sp, entry.item.graph[1]).title,
                  count(entry.item.graph[1]))
EntryViewSpan(sp, entry) ==
    IF entry.ty = "Placeholder" THEN ViewSpan(0, entry.start, entry.width, << >>, << >>, 1)
    ELSE IF entry.ty = "Span"
    THEN ViewSpan(SpanRef_id(entry.item.index), entry.start, entry.width,
                  nice_name(sp, entry.item.index).category,
                  nice_name(sp, entry.item.index).title, 1)
    ELSE ViewSpan(SpanGraphRef_id(first_span(entry.item.graph[1])), entry.start, entry.width,
                  graph_nice_name(sp, entry.item.graph[1]).category,
                  graph_nice_name(sp, entry.item.graph[1]).title,
                  count(entry.item.graph[1]))

\* lines.into_iter().enumerate().map(..).collect()
ViewLineUpdates(sp, lines) ==
    [n \in DOMAIN lines |->
        [y |-> n - 1, spans |-> [k \in DOMAIN lines[n] |-> EntryViewSpan(sp, lines[n][k])]]]

compute_update_run(sp, rect, options) ==
    ProcessQueue(sp, rect, options, ReverseSeq(RootsQueue(sp)), << >>,
                 {<<"root", SpanItem(r)>> : r \in Range(root_spans(sp))})

compute_update(sp, rect, options) ==
    ViewLineUpdates(sp, compute_update_run(sp, rect, options).lines)

\* the store after the accessor calls in reads: every cell they initialize
ReadsApplied(sp, reads) ==
    LET Spans(tag) == {r[2].index : r \in {q \in reads : q[1] = tag}}
        Graphs(tag) == {r[2].graph[1] : r \in {q \in reads : q[1] = tag}}
        timed == Spans("root") \cup Spans("span")
        ctt == {i \in timed : sp[i].corrected_total_time = << >>}
        total == UNION {total_time_visit(sp, i) : i \in ctt}
        ends == UNION {end_visit(sp, i) : i \in Spans("root")}
        depth == UNION {max_depth_visit(sp, i) : i \in Spans("span")}
        hosts == Spans("host")
                    \cup {first_span(g) : g \in {h \in Graphs("events") : count(h) = 1}}
                    \cup UNION {graph_events_visit(sp, g) : g \in Graphs("graph")}
        cst == UNION {graph_members(sp, g) : g \in Graphs("graph")}
    IN  [j \in DOMAIN sp |->
            [sp[j] EXCEPT
                !.end = IF j \in ends THEN <<end_val(sp, j)>> ELSE @,
                !.total_time = IF j \in total THEN <<total_time_val(sp, j)>> ELSE @,
                !.corrected_total_time =
                    IF j \in ctt THEN <<corrected_total_time_val(sp, j)>> ELSE @,
                !.corrected_self_time =
                    IF j \in cst THEN <<corrected_self_time_val(sp, j)>> ELSE @,
                !.max_depth = IF j \in depth THEN <<max_depth_val(sp, j)>> ELSE @,
                !.graph = IF j \in hosts THEN <<graph_val(sp, j)>> ELSE @]]

\* the store after compute_update
compute_update_read(sp, rect, options) ==
    ReadsApplied(sp, compute_update_run(sp, rect, options).reads)

\* the root spans whose processing calls handle_child, in processing order
RootsWithChildren(sp, options) ==
    SelectSeq([k \in DOMAIN RootsQueue(sp) |-> RootsQueue(sp)[k].item.index],
              LAMBDA r : ChildItems(sp, options, SpanItem(r), RawSpans(FALSE)) # << >>)

\* compute_update panics: handle_child divides by rect.width.  Every root
\* is on line 0 and passes both filters, so the division is reached as soon
\* as one root has a child to hand to handle_child.
compute_update_panics(sp, rect, options) ==
    rect.width = 0 /\ RootsWithChildren(sp, options) # << >>

\* the store left behind by the call that panics: the roots were laid out
\* and the first child's corrected_total_time and max_depth were read
compute_update_panic_read(sp, options) ==
    LET r == SpanItem(RootsWithChildren(sp, options)[1])
        child == ChildItems(sp, options, r, RawSpans(FALSE))[1]
    IN  ReadsApplied(sp, {<<"root", SpanItem(q)>> : q \in Range(root_spans(sp))}
                            \cup {<<IF child.kind = "Span" THEN "span" ELSE "graph", child>>}
                            \cup ExpandReads(options, r, RawSpans(FALSE)))

(***************************************************************************)
(* The store as its clients drive it.  A writer applies a batch of         *)
(* add_span / add_self_time calls sharing one outdated set and ends it     *)
(* with invalidate_outdated_spans; readers run between batches.  The       *)
(* history variables calls and created record the calls made, not what     *)
(* the store did with them.                                                *)
(***************************************************************************)
SpanIndexes(sp) == DOMAIN sp \ {0}

SelfTimeCallCount ==
    LET n(i) == Len(SelectSeq(calls[i], LAMBDA c : c.op = "add_self_time"))
        RECURSIVE Total(_)
        Total(S) == IF S = {} THEN 0
                    ELSE LET i == CHOOSE x \in S : TRUE IN n(i) + Total(S \ {i})
    IN  Total(DOMAIN calls)

StoreInit ==
    /\ spans = Store_new
    /\ outdated = {}
    /\ writing = FALSE
    /\ calls = [i \in {0} |-> << >>]
    /\ created = << >>
    /\ was_reset = FALSE
    /\ mutated = {}
    /\ lastBatch = << >>

\* Viewer::new
Viewer_new == << >>

\* handle_connection up to the spawn of the push thread
NoMessage == [type |-> "none"]
NoLocals == [updates |-> << >>, count |-> 0, batch |-> 0]
Threads == {"handler", "push"}

ConnectionInit ==
    /\ generation = 0
    /\ view_rect = [x |-> 0, y |-> 0, width |-> 1, height |-> 1, horizontal_pixels |-> 1]
    /\ last_update_generation = 0
    /\ expanded = << >>
    /\ mutex = "free"
    /\ should_shutdown = FALSE
    /\ pc = [handler |-> "recv", push |-> "check"]
    /\ message = NoMessage
    /\ local = [t \in Threads |-> NoLocals]
    /\ socket = "open"
    /\ wire = << >>
    /\ received = 0
    /\ projections = 0
    /\ computed = << >>

(***************************************************************************)
(* turborepo-cache: FSCache over a cache directory and an anchor.  A file  *)
(* system is a function from the names of its files to their contents; a   *)
(* text file holds a sequence of characters.                               *)
(***************************************************************************)
CacheHashes == {<<"a">>, <<"b">>}
CacheDurations == {0, 5, 10}
AnchorPaths == {"f", "g"}
AnchorContents == {"1", "2"}
CacheFileLists == {<< >>, <<"f">>, <<"f", "g">>, <<"g", "f">>}

PathExists(dir, name) == name \in DOMAIN dir
WriteFile(dir, name, content) ==
    [n \in DOMAIN dir \cup {name} |-> IF n = name THEN content ELSE dir[n]]

\* self.cache_directory.join_component(&format!("{}<suffix>", hash))
CachePath(hash, suffix) == Append(hash, suffix)

DigitChars == <<"0", "1", "2", "3", "4", "5", "6", "7", "8", "9">>
IsDigit(c) == \E d \in DOMAIN DigitChars : DigitChars[d] = c
DigitOf(c) == (CHOOSE d \in DOMAIN DigitChars : DigitChars[d] = c) - 1

RECURSIVE ToDigits(_)
\* a u64 as serde_json writes it
ToDigits(n) ==
    IF n < 10 THEN <<DigitChars[n + 1]>>
    ELSE Append(ToDigits(n \div 10), DigitChars[(n % 10) + 1])

RECURSIVE FromDigits(_)
FromDigits(digits) ==
    IF digits = << >> THEN 0
    ELSE 10 * FromDigits(SubSeq(digits, 1, Len(digits) - 1)) + DigitOf(digits[Len(digits)])

JsonOpen == <<"{", "\"", "h", "a", "s", "h", "\"", ":", "\"">>
JsonMid == <<"\"", ",", "\"", "d", "u", "r", "a", "t", "i", "o", "n", "\"", ":">>
JsonClose == <<"}">>

\* serde_json::to_writer(metadata_file, &meta) for CacheMetadata { hash, duration }
to_writer(meta) == JsonOpen \o meta.hash \o JsonMid \o ToDigits(meta.duration) \o JsonClose

StartsWith(text, prefix) ==
    Len(text) >= Len(prefix) /\ SubSeq(text, 1, Len(prefix)) = prefix
Drop(text, n) == SubSeq(text, n + 1, Len(text))

\* the number of characters before the first quote / the first non-digit
LeadingNonQuotes(text) ==
    CHOOSE n \in 0..Len(text) :
        /\ \A k \in 1..n : text[k] # "\""
        /\ n < Len(text) => text[n + 1] = "\""
LeadingDigits(text) ==
    CHOOSE n \in 0..Len(text) :
        /\ \A k \in 1..n : IsDigit(text[k])
        /\ n < Len(text) => ~IsDigit(text[n + 1])

\* serde_json::from_str::<CacheMetadata>: << >> is Err, <<meta>> is Ok(meta).
\* Characters after the closing brace are an error (no text the cache
\* writes holds white space).
from_str(text) ==
    IF ~StartsWith(text, JsonOpen) THEN << >>
    ELSE LET afterOpen == Drop(text, Len(JsonOpen))
             hashLen == LeadingNonQuotes(afterOpen)
             afterHash == Drop(afterOpen, hashLen)
         IN  IF ~StartsWith(afterHash, JsonMid) THEN << >>
             ELSE LET afterMid == Drop(afterHash, Len(JsonMid))
                      digits == LeadingDigits(afterMid)
                  IN  IF digits = 0 \/ (digits > 1 /\ afterMid[1] = "0") THEN << >>
                      ELSE IF Drop(afterMid, digits) # JsonClose THEN << >>
                      ELSE <<[hash |-> SubSeq(afterOpen, 1, hashLen),
                              duration |-> FromDigits(SubSeq(afterMid, 1, digits))]>>

\* CacheMetadata::read: << >> is Err
CacheMetadata_read(dir, path) ==
    IF PathExists(dir, path) THEN from_str(dir[path]) ELSE << >>

\* OpenOptions::new().create(true).write(true) and a write of text from the
\* start of the file: what the file held past the text stays
OpenWriteTruncating(dir, path, text) == WriteFile(dir, path, text)
OpenWrite(dir, path, text) ==
    WriteFile(dir, path,
              IF PathExists(dir, path) THEN text \o Drop(dir[path], Len(text)) ELSE text)

CacheHitMetadata(duration) == [time_saved |-> duration, source |-> "Local"]

\* CacheWriter::create and add_file for each file, in order: the archive
\* holds the files' paths and contents
CacheWriter(anchor, files) ==
    [k \in 1..Len(files) |-> [path |-> files[k], contents |-> anchor[files[k]]]]

RECURSIVE CacheReader_restore(_, _)
\* CacheReader::restore: the files of the archive are written under the anchor
CacheReader_restore(archive, anchor) ==
    IF archive = << >> THEN anchor
    ELSE WriteFile(CacheReader_restore(SubSeq(archive, 1, Len(archive) - 1), anchor),
                   archive[Len(archive)].path, archive[Len(archive)].contents)
RestoredFiles(archive) == [k \in 1..Len(archive) |-> archive[k].path]

\* FSCache::exists: << >> is Ok(None), <<m>> is Ok(Some(m))
FSCache_exists(dir, hash) ==
    IF ~PathExists(dir, CachePath(hash, ".tar")) /\ ~PathExists(dir, CachePath(hash, ".tar.zst"))
    THEN << >>
    ELSE LET meta == CacheMetadata_read(dir, CachePath(hash, "-meta.json"))
         IN  <<CacheHitMetadata(IF meta = << >> THEN 0 ELSE meta[1].duration)>>

\* FSCache::put where every add_file succeeds: the cache directory it leaves
FSCache_put(dir, anchor, hash, files, duration) ==
    OpenWrite(WriteFile(dir, CachePath(hash, ".tar.zst"), CacheWriter(anchor, files)),
              CachePath(hash, "-meta.json"),
              to_writer([hash |-> hash, duration |-> duration]))

\* FSCache::fetch: what it returns and the anchor it leaves
FSCache_fetch(dir, anchor, hash) ==
    LET uncompressed_cache_path == CachePath(hash, ".tar")
        compressed_cache_path == CachePath(hash, ".tar.zst")
    IN  IF ~PathExists(dir, uncompressed_cache_path) /\ ~PathExists(dir, compressed_cache_path)
        THEN [result |-> "None", anchor |-> anchor]
        ELSE LET cache_path == IF PathExists(dir, uncompressed_cache_path)
                               THEN uncompressed_cache_path ELSE compressed_cache_path
                 restored == CacheReader_restore(dir[cache_path], anchor)
                 meta == CacheMetadata_read(dir, CachePath(hash, "-meta.json"))
             IN  IF meta = << >>
                 THEN [result |-> "Err", anchor |-> restored]
                 ELSE [result |-> "Some", anchor |-> restored,
                       status |-> CacheHitMetadata(meta[1].duration),
                       files |-> RestoredFiles(dir[cache_path])]

NoCall == [op |-> "none"]

\* FSCache::new in a fresh repository whose files the test case has written
CacheInit ==
    /\ cache_directory = << >>
    /\ anchor_files = [path \in AnchorPaths |-> "1"]
    /\ last_call = NoCall

Init ==
    /\ StoreInit
    /\ span_options = Viewer_new
    /\ ConnectionInit
    /\ CacheInit

\* the spans (the sentinel apart) whose events differ between two stores
EventsChanged(old, new) == {i \in SpanIndexes(old) : new[i].events # old[i].events}

RECURSIVE ParentChain(_, _)
\* a span and its ancestors
ParentChain(sp, i) ==
    IF sp[i].parent = NoParent THEN {i} ELSE {i} \cup ParentChain(sp, sp[i].parent)

InvalidatedCells(span) ==
    <<span.end, span.total_time, span.corrected_self_time, span.corrected_total_time,
      span.graph>>
NoCells == <<(<< >>), (<< >>), (<< >>), (<< >>), (<< >>)>>

AddSpan(limit, parent, start, kind) ==
    /\ VecLen(spans) <= limit
    /\ spans' = add_span(spans, parent, start, kind.name, kind.args)
    /\ outdated' = add_span_outdated(outdated, parent)
    /\ writing' = TRUE
    /\ calls' = [i \in DOMAIN spans' |->
                    LET old == IF i \in DOMAIN calls /\ i # VecLen(spans) THEN calls[i] ELSE << >>
                    IN  IF i = ParentSlot(parent)
                        THEN Append(old, [op |-> "add_span", id |-> VecLen(spans),
                                          start |-> 0, end |-> 0])
                        ELSE old]
    /\ created' = Append(created, [index |-> NextIndex(spans), parent |-> parent,
                                   start |-> start, name |-> kind.name, args |-> kind.args])
    /\ mutated' = mutated \cup EventsChanged(spans, spans')
    /\ lastBatch' = << >>
    /\ UNCHANGED <<was_reset, sessionVars>>

AddSelfTimeWithin(limit, i, start, end) ==
    /\ SelfTimeCallCount < limit
    /\ spans' = add_self_time(spans, i, start, end)
    /\ outdated' = add_self_time_outdated(spans, outdated, i)
    /\ writing' = TRUE
    /\ calls' = [calls EXCEPT ![i] = Append(@, [op |-> "add_self_time", id |-> 0,
                                                start |-> start, end |-> end])]
    /\ mutated' = mutated \cup EventsChanged(spans, spans')
    /\ lastBatch' = << >>
    /\ UNCHANGED <<created, was_reset, sessionVars>>

AddSelfTime(i, start, end) == AddSelfTimeWithin(MaxSelfTimeCalls, i, start, end)

\* history tells whether the batch is recorded in lastBatch
InvalidateOutdatedSpans(history) ==
    /\ writing
    /\ spans' = invalidate_outdated_spans(spans, outdated)
    /\ outdated' = {}
    /\ writing' = FALSE
    /\ mutated' = {}
    /\ lastBatch' = IF history
                    THEN <<[mutated |-> mutated,
                            filled |-> {i \in SpanIndexes(spans) :
                                            InvalidatedCells(spans[i]) # NoCells}]>>
                    ELSE << >>
    /\ was_reset' = FALSE
    /\ UNCHANGED <<calls, created, sessionVars>>

Reset ==
    /\ ~writing
    /\ VecLen(spans) > 1
    /\ spans' = reset(spans)
    /\ calls' = [i \in {0} |-> << >>]
    /\ created' = << >>
    /\ was_reset' = TRUE
    /\ lastBatch' = << >>
    /\ UNCHANGED <<outdated, writing, mutated, sessionVars>>

Read(sp) ==
    /\ ~writing
    /\ spans' = sp
    /\ lastBatch' = << >>
    /\ UNCHANGED <<outdated, writing, calls, created, was_reset, mutated, sessionVars>>

\* a reader calling, on span i, the accessors whose cells
\* invalidate_outdated_spans clears: end(), total_time(),
\* corrected_self_time(), corrected_total_time(), graph()
ReadSpan(i) ==
    Read(graph_read(corrected_total_time_read(corrected_self_time_read(
            total_time_read(end_read(spans, i), i), i), i), i))
ReadMaxDepth(i) == Read(max_depth_read(spans, i))
ReadGraph(i) == Read(graph_read(spans, i))
ReadGraphTimes(i) == Read(graph_times_read(spans, i))

Next ==
    \/ \E parent \in {NoParent} \cup SpanIndexes(spans), start \in Starts, kind \in StoreKinds :
            AddSpan(MaxSpans, parent, start, kind)
    \/ \E i \in SpanIndexes(spans), t \in SelfTimeInputs : AddSelfTime(i, t[1], t[2])
    \/ InvalidateOutdatedSpans(TRUE)
    \/ Reset
    \/ \E i \in SpanIndexes(spans) : ReadSpan(i)

Spec == Init /\ [][Next]_vars

(***************************************************************************)
(* The derived metrics as section 4.2 of the specification defines them,   *)
(* on the span data alone (no cell is read).                               *)
(***************************************************************************)
ChildrenOf(sp, i) == {c \in SpanIndexes(sp) : ParentSlot(sp[c].parent) = i}

RECURSIVE SetMax(_)
SetMax(S) == IF S = {} THEN 0
             ELSE LET x == CHOOSE y \in S : TRUE IN Max(x, SetMax(S \ {x}))

RECURSIVE SetSum(_, _)
SetSum(S, f) == IF S = {} THEN 0
                ELSE LET x == CHOOSE y \in S : TRUE IN f[x] + SetSum(S \ {x}, f)

SelfTimeEvents(sp, i) == SelectSeq(sp[i].events, LAMBDA e : e.type = "SelfTime")

RECURSIVE TrueEnd(_, _)
TrueEnd(sp, i) == Max(sp[i].self_end, SetMax({TrueEnd(sp, c) : c \in ChildrenOf(sp, i)}))

RECURSIVE TrueTotalTime(_, _)
TrueTotalTime(sp, i) ==
    sp[i].self_time + SetSum(ChildrenOf(sp, i), [c \in ChildrenOf(sp, i) |-> TrueTotalTime(sp, c)])

RECURSIVE TrueMaxDepth(_, _)
TrueMaxDepth(sp, i) ==
    IF ChildrenOf(sp, i) = {} THEN 0
    ELSE 1 + SetMax({TrueMaxDepth(sp, c) : c \in ChildrenOf(sp, i)})

(***************************************************************************)
(* C1.  Invalidation completeness: when invalidate_outdated_spans ends a   *)
(* batch, every span mutated in the batch (new child, or self-time that    *)
(* was not suppressed) and every ancestor on its parent chain has its end, *)
(* total_time, corrected_self_time, corrected_total_time and graph cells   *)
(* unfilled, also when the walk stopped early at an outdated ancestor.     *)
(***************************************************************************)
C1_InvalidationCompleteness ==
    lastBatch # << >> =>
        \A s \in lastBatch[1].mutated : \A a \in ParentChain(spans, s) :
            InvalidatedCells(spans[a]) = NoCells

\* a batch that mutated a span and its parent (the walk from the span stops
\* at the parent) while the parent's cells were filled
C1_Witness ==
    /\ lastBatch # << >>
    /\ \E s \in lastBatch[1].mutated :
        /\ spans[s].parent \in lastBatch[1].mutated
        /\ spans[s].parent \in lastBatch[1].filled

(***************************************************************************)
(* C2.  Memoized reads are never stale: between batches, what end(),       *)
(* total_time(), corrected_self_time() and corrected_total_time() return   *)
(* for any span is the value computed from scratch on the span data:       *)
(* end = max(self_end, max child end), total_time = self_time + sum of     *)
(* the children's total_time, and the corrected values equal the plain.    *)
(***************************************************************************)
C2_ReadsNeverStale ==
    ~writing =>
        \A i \in SpanIndexes(spans) :
            /\ end_val(spans, i) = TrueEnd(spans, i)
            /\ total_time_val(spans, i) = TrueTotalTime(spans, i)
            /\ corrected_self_time_val(spans, i) = spans[i].self_time
            /\ corrected_total_time_val(spans, i) = TrueTotalTime(spans, i)

\* a parent whose filled cells carry what a child's self-time contributed
C2_Witness ==
    /\ ~writing
    /\ \E i \in SpanIndexes(spans) :
        /\ spans[i].end # << >> /\ spans[i].end[1] > spans[i].self_end
        /\ spans[i].corrected_total_time # << >>
        /\ spans[i].corrected_total_time[1] > spans[i].self_time

(***************************************************************************)
(* The store with readers of max_depth(), the one subtree-derived cell     *)
(* that invalidate_outdated_spans leaves alone.                            *)
(***************************************************************************)
NextDepth ==
    \/ \E parent \in {NoParent} \cup SpanIndexes(spans), start \in Starts, kind \in StoreKinds :
            AddSpan(MaxSpans, parent, start, kind)
    \/ InvalidateOutdatedSpans(FALSE)
    \/ Reset
    \/ \E i \in SpanIndexes(spans) : ReadMaxDepth(i)

SpecDepth == Init /\ [][NextDepth]_vars

(***************************************************************************)
(* C3.  max_depth(S) is 1 + the greatest max_depth of S's current          *)
(* children, and 0 without children, also when children were added below   *)
(* S after max_depth(S) was first read.                                    *)
(***************************************************************************)
C3_MaxDepthCurrent ==
    ~writing => \A i \in SpanIndexes(spans) : max_depth_val(spans, i) = TrueMaxDepth(spans, i)

(***************************************************************************)
(* The store with readers of the aggregation graph: graph() of a span and  *)
(* corrected_total_time() of the SpanGraphs it yields.                     *)
(***************************************************************************)
NextGraph ==
    \/ \E parent \in {NoParent} \cup SpanIndexes(spans), start \in GraphStarts,
          kind \in GraphKinds :
            AddSpan(MaxGraphSpans, parent, start, kind)
    \/ InvalidateOutdatedSpans(FALSE)
    \/ \E i \in SpanIndexes(spans) : ReadGraph(i)

SpecGraph == Init /\ [][NextGraph]_vars

NextGraphTimes ==
    \/ \E parent \in {NoParent} \cup SpanIndexes(spans), start \in GraphStarts,
          kind \in GraphKinds :
            AddSpan(MaxGraphTimesSpans, parent, start, kind)
    \/ \E i \in SpanIndexes(spans), t \in SelfTimeInputs : AddSelfTime(i, t[1], t[2])
    \/ InvalidateOutdatedSpans(FALSE)
    \/ \E i \in SpanIndexes(spans) : ReadGraphTimes(i)

SpecGraphTimes == Init /\ [][NextGraphTimes]_vars

(***************************************************************************)
(* C7.  Aggregation grouping: graph(H) yields one SpanGraph per distinct   *)
(* group_name among H's direct children, in order of first occurrence;     *)
(* its root_spans are the direct children of H with that group_name in     *)
(* insertion order, and its recursive_spans are exactly the descendants of *)
(* those roots reachable through spans that all have that group_name.      *)
(***************************************************************************)
RECURSIVE SortedSeq(_)
SortedSeq(S) ==
    IF S = {} THEN << >>
    ELSE LET least == CHOOSE x \in S : \A y \in S : x <= y
         IN  <<least>> \o SortedSeq(S \ {least})

RECURSIVE FirstOccurrences(_)
FirstOccurrences(s) ==
    IF s = << >> THEN << >>
    ELSE <<Head(s)>> \o FirstOccurrences(SelectSeq(Tail(s), LAMBDA x : x # Head(s)))

RECURSIVE SameGroupBelow(_, _, _)
SameGroupBelow(sp, r, g) ==
    LET same == {c \in ChildrenOf(sp, r) : group_name(sp, c) = g}
    IN  same \cup UNION {SameGroupBelow(sp, c, g) : c \in same}

GroupingOf(sp, h, gs) ==
    LET kids == SortedSeq(ChildrenOf(sp, h))
        groups == FirstOccurrences([k \in DOMAIN kids |-> group_name(sp, kids[k])])
    IN  /\ Len(gs) = Len(groups)
        /\ \A k \in DOMAIN gs :
            /\ gs[k].root_spans = SelectSeq(kids, LAMBDA c : group_name(sp, c) = groups[k])
            /\ Range(gs[k].recursive_spans)
                 = UNION {SameGroupBelow(sp, r, groups[k]) : r \in Range(gs[k].root_spans)}
            /\ Len(gs[k].recursive_spans) = Cardinality(Range(gs[k].recursive_spans))

C7_AggregationGrouping ==
    ~writing => \A h \in SpanIndexes(spans) : GroupingOf(spans, h, graph_val(spans, h))

\* a host whose filled graph cell holds two groups, one with a recursive span
C7_Witness ==
    /\ ~writing
    /\ \E h \in SpanIndexes(spans) :
        /\ spans[h].graph # << >>
        /\ Len(spans[h].graph[1]) = 2
        /\ \E k \in DOMAIN spans[h].graph[1] : spans[h].graph[1][k].recursive_spans # << >>

(***************************************************************************)
(* C8.  Aggregation conservation: the corrected_total_time of the          *)
(* SpanGraphs of graph(S) sums to the corrected_total_time of S's direct   *)
(* children, and every SpanGraph G, with one member or several, has        *)
(* total_time(G) = the sum of total_time over G's root_spans.              *)
(***************************************************************************)
RECURSIVE NestedGraphs(_, _)
NestedGraphs(sp, g) == {g} \cup UNION {NestedGraphs(sp, c) : c \in Range(graph_events(sp, g))}

AllGraphs(sp, i) == UNION {NestedGraphs(sp, g) : g \in Range(graph_val(sp, i))}

C8_AggregationConservation ==
    ~writing =>
        \A i \in SpanIndexes(spans) :
            /\ SumSeq([k \in DOMAIN graph_val(spans, i) |->
                        graph_corrected_total_time(spans, graph_val(spans, i)[k])])
                 = SumSeq([k \in DOMAIN children(spans, i) |->
                        corrected_total_time_val(spans, children(spans, i)[k])])
            /\ \A g \in AllGraphs(spans, i) :
                graph_total_time(spans, g)
                  = SumSeq([k \in DOMAIN g.root_spans |-> total_time_val(spans, g.root_spans[k])])

\* a SpanGraph of several members that carries time, read through its host
C8_Witness ==
    /\ ~writing
    /\ \E i \in SpanIndexes(spans) :
        /\ spans[i].graph # << >>
        /\ \E g \in Range(spans[i].graph[1]) :
            /\ count(g) > 1
            /\ graph_corrected_total_time(spans, g) > 0
            /\ \A m \in Range(recursive_spans(g)) : spans[m].corrected_self_time # << >>

(***************************************************************************)
(* C4.  Thread self-time suppression: add_self_time on a span named        *)
(* "thread" leaves the store and the outdated set as they were, and such   *)
(* a span keeps self_time = 0, self_end = start and no SelfTime event.     *)
(***************************************************************************)
SelfTimeCalledOn(i) ==
    /\ i \in DOMAIN calls'
    /\ Len(calls'[i]) = Len(calls[i]) + 1
    /\ calls'[i][Len(calls'[i])].op = "add_self_time"

ThreadSpanUntouched(sp, i) ==
    /\ sp[i].self_time = 0
    /\ sp[i].self_end = sp[i].start
    /\ SelfTimeEvents(sp, i) = << >>

C4_ThreadSuppression ==
    [][/\ \A i \in SpanIndexes(spans') :
            spans'[i].name = "thread" => ThreadSpanUntouched(spans', i)
       /\ \A i \in SpanIndexes(spans) :
            (spans[i].name = "thread" /\ SelfTimeCalledOn(i))
                => (spans' = spans /\ outdated' = outdated)]_vars

C4_Witness ==
    \E i \in SpanIndexes(spans) :
        /\ spans[i].name = "thread"
        /\ \E k \in DOMAIN calls[i] : calls[i][k].op = "add_self_time"

(***************************************************************************)
(* C5.  Index stability: between two resets the k-th add_span returns      *)
(* index k, and store.span(index << 1) keeps resolving to the record that  *)
(* call created, with is_graph = false.                                    *)
(***************************************************************************)
C5_IndexStability ==
    \A k \in DOMAIN created :
        LET c == created[k]
            r == Store_span(spans, SpanRef_id(c.index))
        IN  /\ c.index = k
            /\ r # << >>
            /\ r[1].is_graph = FALSE
            /\ r[1].index = c.index
            /\ spans[r[1].index].parent = c.parent
            /\ spans[r[1].index].start = c.start
            /\ spans[r[1].index].name = c.name
            /\ spans[r[1].index].args = c.args

\* two spans added, then self-time and an invalidation
C5_Witness ==
    /\ Len(created) >= 2
    /\ lastBatch # << >>
    /\ \E i \in SpanIndexes(spans) : spans[i].self_time > 0

(***************************************************************************)
(* C6.  Event ordering: the events of every span and of the root sentinel  *)
(* are the SelfTime and Child events of the calls made on it, in call      *)
(* order (suppressed self-time calls leave none); every child appears as   *)
(* exactly one Child event, and children() / root_spans() yield the        *)
(* children in add_span call order, that is by ascending index.            *)
(***************************************************************************)
EventOfCall(c) ==
    IF c.op = "add_span" THEN ChildEvent(c.id) ELSE SelfTimeEvent(c.start, c.end)

ExpectedEvents(i) ==
    LET kept == SelectSeq(calls[i],
                    LAMBDA c : c.op = "add_span" \/ ~(i # 0 /\ spans[i].name = "thread"))
    IN  [k \in DOMAIN kept |-> EventOfCall(kept[k])]

Ascending(s) == \A j, k \in DOMAIN s : j < k => s[j] < s[k]

C6_EventOrdering ==
    /\ DOMAIN calls = DOMAIN spans
    /\ \A i \in DOMAIN spans :
        /\ spans[i].events = ExpectedEvents(i)
        /\ Ascending(children(spans, i))
        /\ Range(children(spans, i)) = ChildrenOf(spans, i)
    /\ root_spans(spans) = children(spans, 0)

\* a span holding a self-time event followed by a child, beside a root
\* sentinel with a child of its own
C6_Witness ==
    \E i \in SpanIndexes(spans) :
        /\ Len(spans[i].events) = 2
        /\ spans[i].events[1].type = "SelfTime"
        /\ spans[i].events[2].type = "Child"

(***************************************************************************)
(* The projector over the store: batches of add_span / add_self_time,      *)
(* set_view_mode and compute_update between batches.                       *)
(***************************************************************************)
ViewRects ==
    {[x |-> 0, y |-> 0, width |-> 10, height |-> 10, horizontal_pixels |-> 10],
     [x |-> 2, y |-> 0, width |-> 2, height |-> 1, horizontal_pixels |-> 100]}
ViewModes == {<<[mode |-> Aggregated(TRUE), inherit |-> TRUE]>>}
SpanIds(sp) == {SpanRef_id(i) : i \in SpanIndexes(sp)} \cup {SpanGraphRef_id(i) : i \in SpanIndexes(sp)}

\* the names given to the next span: the first two spans share one name
ViewKinds(sp) == IF VecLen(sp) < 3 THEN {FunctionKind} ELSE GraphKinds

SetViewMode(id, view_mode) ==
    /\ Cardinality(DOMAIN span_options \cup {id}) <= MaxViewOptions
    /\ span_options' = set_view_mode(span_options, id, view_mode)
    /\ UNCHANGED <<storeVars, serverVars>>

ComputeUpdate(rect) ==
    /\ Read(compute_update_read(spans, rect, span_options))

NextView ==
    \/ \E parent \in {NoParent} \cup SpanIndexes(spans), kind \in ViewKinds(spans) :
            AddSpan(MaxViewSpans, parent, 0, kind)
    \/ \E i \in SpanIndexes(spans), t \in SelfTimeInputs : AddSelfTime(i, t[1], t[2])
    \/ InvalidateOutdatedSpans(FALSE)
    \/ \E id \in SpanIds(spans), view_mode \in ViewModes : SetViewMode(id, view_mode)
    \/ \E rect \in ViewRects : ComputeUpdate(rect)

SpecView == Init /\ [][NextView]_vars

\* the store holding the same span data with no accessor called on it yet:
\* what the same add_span / add_self_time calls build when nothing reads
\* between them
Unread(sp) ==
    [i \in DOMAIN sp |->
        [sp[i] EXCEPT !.end = << >>, !.total_time = << >>, !.corrected_self_time = << >>,
                      !.corrected_total_time = << >>, !.max_depth = << >>, !.graph = << >>]]

\* C9: projection determinism.  Between batches, for every view rect,
\* compute_update on the store returns the ViewLineUpdate vector it returns
\* on a store that holds the same span data and was reached without any
\* read: the result depends on the span data, the rect and the view-mode
\* map only, not on the history of reads and batches.
C9_ProjectionDeterminism ==
    ~writing =>
        \A rect \in ViewRects :
            compute_update(spans, rect, span_options)
                = compute_update(Unread(spans), rect, span_options)


(***************************************************************************)
(* server.rs: one connection.  The handler thread runs the receive loop,   *)
(* the push thread the 500 ms loop; both call send_update under the        *)
(* Mutex<ConnectionState>.  StoreContainer (read(), generation()) and      *)
(* Viewer::set_expanded_state are called by server.rs and are modelled     *)
(* after the specification: the store sits behind a readers/writer lock,   *)
(* a writer applies a batch, invalidates and then increments the           *)
(* generation; set_expanded_state records the state in the expand map.     *)
(* The history variables of the store are not recorded here.               *)
(***************************************************************************)
MaxServerSpans == 2     \* spans the writer adds during the connection
MaxClientMessages == 1  \* messages the client sends on the connection

ServerViewRects ==
    {[x |-> 0, y |-> 0, width |-> 10, height |-> 10, horizontal_pixels |-> 10],
     [x |-> 0, y |-> 0, width |-> 0, height |-> 1, horizontal_pixels |-> 1]}

\* the ClientToServerMessage values the client sends as text
ClientToServerMessages ==
    {[type |-> "view-rect", view_rect |-> r] : r \in ServerViewRects}
        \cup {[type |-> t, id |-> 2] : t \in {"expand", "expand-all", "collapse", "reset-expand"}}
        \cup {[type |-> "query", id |-> i] : i \in {2, 7}}

\* the ExpandedState a command hands to set_expanded_state
CommandExpandedState(type) ==
    CASE type = "expand" -> <<"Expanded">>
      [] type = "expand-all" -> <<"AllExpanded">>
      [] type = "collapse" -> <<"Collapsed">>
      [] type = "reset-expand" -> << >>

set_expanded_state(map, id, state) ==
    [k \in DOMAIN map \cup {id} |-> IF k = id THEN state ELSE map[k]]

RECURSIVE QueryPathUnreversed(_, _)
QueryPathUnreversed(sp, i) ==
    IF SpanRef_parent(sp, i) = NoParent THEN << >>
    ELSE <<nice_name(sp, SpanRef_parent(sp, i)).title>>
            \o QueryPathUnreversed(sp, SpanRef_parent(sp, i))

RECURSIVE QueryPath(_, _)
\* the titles of the ancestors, outermost first
QueryPath(sp, i) ==
    IF SpanRef_parent(sp, i) = NoParent THEN << >>
    ELSE Append(QueryPath(sp, SpanRef_parent(sp, i)), nice_name(sp, SpanRef_parent(sp, i)).title)

\* a miss answered with the id's low bit
QueryResultMissKeepsBit(sp, id) ==
    LET found == Store_span(sp, id)
    IN  IF found # << >>
        THEN [type |-> "query-result", id |-> id, is_graph |-> found[1].is_graph,
              start |-> sp[found[1].index].start, args |-> sp[found[1].index].args,
              path |-> QueryPath(sp, found[1].index)]
        ELSE [type |-> "query-result", id |-> id, is_graph |-> (id % 2 = 1), start |-> 0,
              args |-> << >>, path |-> << >>]
QueryResult(sp, id) ==
    LET found == Store_span(sp, id)
    IN  IF found # << >>
        THEN [type |-> "query-result", id |-> id, is_graph |-> found[1].is_graph,
              start |-> sp[found[1].index].start, args |-> sp[found[1].index].args,
              path |-> QueryPath(sp, found[1].index)]
        ELSE [type |-> "query-result", id |-> id, is_graph |-> FALSE, start |-> 0,
              args |-> << >>, path |-> << >>]

ViewLine(update, batch) == [type |-> "view-line", update |-> update, batch |-> batch]
ViewLinesCount(cnt, batch) == [type |-> "view-lines-count", count |-> cnt, batch |-> batch]
Pong == [type |-> "pong"]

\* Mutex::lock succeeds once no thread holds the mutex
CanLockAlways(m) == m # "poisoned"
CanLock(m) == m = "free"

\* a thread holds the store's read guard from store.read() in send_update
\* until send_update returns
ReadGuardHeld == \E t \in Threads : pc[t] = "send"

\* where a thread goes when send_update returns Ok / Err
AfterOk(t) == IF t = "handler" THEN "recv" ELSE "sleep"
AfterErr(t) == IF t = "handler" THEN "failed" ELSE "done"

\* the parent the writer gives the next span: the trace nests each new span
\* in the newest one, so that a projection has one line per span
NewestSpan(sp) == IF VecLen(sp) = 1 THEN NoParent ELSE VecLen(sp) - 1

\* the store writer: one batch (add_span, invalidate_outdated_spans) under
\* the write lock, then the generation is incremented
WriteBatch(parent, kind) ==
    /\ ~ReadGuardHeld
    /\ VecLen(spans) <= MaxServerSpans
    /\ spans' = invalidate_outdated_spans(add_span(spans, parent, 0, kind.name, kind.args),
                                          add_span_outdated({}, parent))
    /\ generation' = generation + 1
    /\ UNCHANGED <<outdated, writing, calls, created, was_reset, mutated, lastBatch, span_options,
                   connectionVars, threadVars, socketVars>>

\* the client goes away or the connection breaks: every later send fails
SocketBreaks ==
    /\ socket = "open"
    /\ socket' = "closed"
    /\ UNCHANGED <<storeVars, span_options, generation, connectionVars, threadVars,
                   wire, received, cacheVars, projections, computed>>

Receiving ==
    /\ pc.handler = "recv"
    /\ socket = "open"
    /\ received < MaxClientMessages
    /\ received' = received + 1
    /\ UNCHANGED cacheVars

\* OwnedMessage::Text holding a ClientToServerMessage
ReceiveText(m) ==
    /\ Receiving
    /\ message' = m
    /\ pc' = [pc EXCEPT !.handler = "lock"]
    /\ UNCHANGED <<storeVars, span_options, generation, connectionVars, mutex,
                   should_shutdown, local, socket, wire, projections, computed>>

\* OwnedMessage::Text that serde_json::from_str rejects
ReceiveMalformed ==
    /\ Receiving
    /\ pc' = [pc EXCEPT !.handler = "failed"]
    /\ UNCHANGED <<storeVars, span_options, generation, connectionVars, mutex,
                   should_shutdown, message, local, socket, wire, projections, computed>>

\* OwnedMessage::Binary and OwnedMessage::Pong
ReceiveIgnored ==
    /\ Receiving
    /\ UNCHANGED <<storeVars, span_options, generation, connectionVars, threadVars,
                   socket, wire, projections, computed>>

\* OwnedMessage::Ping
ReceivePing ==
    /\ Receiving
    /\ message' = [type |-> "ping"]
    /\ pc' = [pc EXCEPT !.handler = "lock"]
    /\ UNCHANGED <<storeVars, span_options, generation, connectionVars, mutex,
                   should_shutdown, local, socket, wire, projections, computed>>

\* OwnedMessage::Close up to the join
ReceiveClose ==
    /\ Receiving
    /\ socket' = "closed"
    /\ should_shutdown' = TRUE
    /\ pc' = [pc EXCEPT !.handler = "join"]
    /\ UNCHANGED <<storeVars, span_options, generation, connectionVars, mutex,
                   message, local, wire, projections, computed>>

\* reader.recv_message()? on a broken connection
ReceiveError ==
    /\ pc.handler = "recv"
    /\ socket # "open"
    /\ pc' = [pc EXCEPT !.handler = "failed"]
    /\ UNCHANGED <<storeVars, span_options, generation, connectionVars, mutex,
                   should_shutdown, message, local, socketVars>>

\* inner_thread.join().unwrap()
HandlerJoin ==
    /\ pc.handler = "join"
    /\ pc.push \in {"done", "panicked"}
    /\ pc' = [pc EXCEPT !.handler = IF pc.push = "done" THEN "closed" ELSE "panicked"]
    /\ UNCHANGED <<storeVars, span_options, generation, connectionVars, mutex,
                   should_shutdown, message, local, socketVars>>

\* state.lock().unwrap()
Lock(t) ==
    /\ pc[t] = "lock"
    /\ IF mutex = "poisoned"
       THEN /\ pc' = [pc EXCEPT ![t] = "panicked"]
            /\ UNCHANGED mutex
       ELSE /\ CanLock(mutex)
            /\ mutex' = t
            /\ pc' = [pc EXCEPT ![t] = IF t = "handler" THEN "handle" ELSE "update"]
    /\ UNCHANGED <<storeVars, span_options, generation, connectionVars,
                   should_shutdown, message, local, socketVars>>

\* state.view_rect = view_rect
ViewRectKept(current, m) == current
ViewRectSet(current, m) == m.view_rect

HandleViewRect ==
    /\ pc.handler = "handle"
    /\ message.type = "view-rect"
    /\ view_rect' = ViewRectSet(view_rect, message)
    /\ pc' = [pc EXCEPT !.handler = "update"]
    /\ UNCHANGED <<storeVars, span_options, generation, last_update_generation, expanded,
                   mutex, should_shutdown, message, local, socketVars>>

\* the Expand, ExpandAll, Collapse and ResetExpand arms
HandleExpand ==
    /\ pc.handler = "handle"
    /\ message.type \in {"expand", "expand-all", "collapse", "reset-expand"}
    /\ expanded' = set_expanded_state(expanded, message.id, CommandExpandedState(message.type))
    /\ pc' = [pc EXCEPT !.handler = "update"]
    /\ UNCHANGED <<storeVars, span_options, generation, view_rect, last_update_generation,
                   mutex, should_shutdown, message, local, socketVars>>

\* a send outside send_update: the message goes out, or the handler fails
HandlerSends(msg) ==
    /\ pc.handler = "handle"
    /\ mutex' = "free"
    /\ message' = NoMessage
    /\ IF socket = "open"
       THEN /\ wire' = Append(wire, msg)
            /\ pc' = [pc EXCEPT !.handler = "recv"]
       ELSE /\ pc' = [pc EXCEPT !.handler = "failed"]
            /\ UNCHANGED wire
    /\ UNCHANGED <<storeVars, span_options, generation, connectionVars, should_shutdown,
                   local, socket, received, cacheVars, projections, computed>>

HandleQuery ==
    /\ message.type = "query"
    /\ HandlerSends(QueryResult(spans, message.id))

HandlePing ==
    /\ message.type = "ping"
    /\ HandlerSends(Pong)

\* if !force_send && state.last_update_generation == store.generation()
NothingNewNever(force_send, last, current) == FALSE
NothingNew(force_send, last, current) == ~force_send /\ last = current

\* send_update up to the first send: the generation check and compute_update
SendUpdateBegin(t) ==
    /\ pc[t] = "update"
    /\ IF NothingNew(t = "handler", last_update_generation, generation)
       THEN /\ mutex' = "free"
            /\ pc' = [pc EXCEPT ![t] = AfterOk(t)]
            /\ UNCHANGED <<spans, last_update_generation, local, projections, computed>>
       ELSE /\ last_update_generation' = generation
            /\ IF compute_update_panics(spans, view_rect, span_options)
               THEN /\ spans' = compute_update_panic_read(spans, span_options)
                    /\ mutex' = "poisoned"
                    /\ pc' = [pc EXCEPT ![t] = "panicked"]
                    /\ UNCHANGED <<local, projections, computed>>
               ELSE /\ spans' = compute_update_read(spans, view_rect, span_options)
                    /\ local' = [local EXCEPT ![t] =
                            [updates |-> compute_update(spans, view_rect, span_options),
                             count |-> Len(compute_update(spans, view_rect, span_options)),
                             batch |-> projections + 1]]
                    /\ projections' = projections + 1
                    /\ computed' = Append(computed,
                            [thread |-> t, view_rect |-> view_rect, expanded |-> expanded,
                             generation |-> generation])
                    /\ pc' = [pc EXCEPT ![t] = "send"]
                    /\ UNCHANGED mutex
    /\ UNCHANGED <<outdated, writing, calls, created, was_reset, mutated, lastBatch, span_options,
                   generation, view_rect, expanded, should_shutdown, message, socket, wire,
                   received, cacheVars>>

\* send_update returns: the guard is dropped
SendUpdateReturns(t, to) ==
    /\ local' = [local EXCEPT ![t] = NoLocals]
    /\ mutex' = "free"
    /\ pc' = [pc EXCEPT ![t] = to]
    /\ message' = IF t = "handler" THEN NoMessage ELSE message

\* one turn of the for loop over updates
SendViewLine(t) ==
    /\ pc[t] = "send"
    /\ local[t].updates # << >>
    /\ IF socket = "open"
       THEN /\ wire' = Append(wire, ViewLine(Head(local[t].updates), local[t].batch))
            /\ local' = [local EXCEPT ![t].updates = Tail(@)]
            /\ UNCHANGED <<mutex, pc, message>>
       ELSE /\ SendUpdateReturns(t, AfterErr(t))
            /\ UNCHANGED wire
    /\ UNCHANGED <<storeVars, span_options, generation, connectionVars, should_shutdown,
                   socket, received, cacheVars, projections, computed>>

SendViewLinesCount(t) ==
    /\ pc[t] = "send"
    /\ local[t].updates = << >>
    /\ IF socket = "open"
       THEN /\ wire' = Append(wire, ViewLinesCount(local[t].count, local[t].batch))
            /\ SendUpdateReturns(t, AfterOk(t))
       ELSE /\ SendUpdateReturns(t, AfterErr(t))
            /\ UNCHANGED wire
    /\ UNCHANGED <<storeVars, span_options, generation, connectionVars, should_shutdown,
                   socket, received, cacheVars, projections, computed>>

\* if should_shutdown.load(Ordering::SeqCst) { return; }
PushCheck ==
    /\ pc.push = "check"
    /\ pc' = [pc EXCEPT !.push = IF should_shutdown THEN "done" ELSE "lock"]
    /\ UNCHANGED <<storeVars, span_options, generation, connectionVars, mutex,
                   should_shutdown, message, local, socketVars>>

\* thread::sleep(Duration::from_millis(500))
PushSleep ==
    /\ pc.push = "sleep"
    /\ pc' = [pc EXCEPT !.push = "check"]
    /\ UNCHANGED <<storeVars, span_options, generation, connectionVars, mutex,
                   should_shutdown, message, local, socketVars>>

NextServer ==
    \/ WriteBatch(NewestSpan(spans), PlainKind)
    \/ SocketBreaks
    \/ \E m \in ClientToServerMessages : ReceiveText(m)
    \/ ReceiveMalformed
    \/ ReceiveIgnored
    \/ ReceivePing
    \/ ReceiveClose
    \/ ReceiveError
    \/ HandlerJoin
    \/ \E t \in Threads : Lock(t)
    \/ HandleViewRect
    \/ HandleExpand
    \/ HandleQuery
    \/ HandlePing
    \/ \E t \in Threads : SendUpdateBegin(t)
    \/ \E t \in Threads : SendViewLine(t)
    \/ \E t \in Threads : SendViewLinesCount(t)
    \/ PushCheck
    \/ PushSleep

SpecServer == Init /\ [][NextServer]_vars

RECURSIVE LeadingLines(_, _)
\* the number of view-line messages of batch b that w starts with
LeadingLines(w, b) ==
    IF w # << >> /\ Head(w).type = "view-line" /\ Head(w).batch = b
    THEN 1 + LeadingLines(Tail(w), b)
    ELSE 0

\* batch b is still being sent: its thread is inside send_update and has
\* sent k of its view-lines
InProgress(b, k) ==
    \E t \in Threads :
        /\ pc[t] = "send"
        /\ local[t].batch = b
        /\ k + Len(local[t].updates) = local[t].count

RECURSIVE Framed(_, _)
\* w is made of query-results, pongs and batches; a batch is the view-lines
\* of one projection, uninterrupted, then its view-lines-count with their
\* number; no projection has two batches (seen); only the last batch may
\* lack its view-lines-count, when it is still being sent or the connection
\* has ended
Framed(w, seen) ==
    IF w = << >> THEN TRUE
    ELSE IF Head(w).type \in {"query-result", "pong"} THEN Framed(Tail(w), seen)
    ELSE LET b == Head(w).batch
             k == LeadingLines(w, b)
             rest == SubSeq(w, k + 1, Len(w))
         IN  /\ b \notin seen
             /\ IF rest = << >> THEN InProgress(b, k) \/ socket # "open"
                ELSE /\ rest[1].type = "view-lines-count"
                     /\ rest[1].batch = b
                     /\ rest[1].count = k
                     /\ Framed(Tail(rest), seen \cup {b})

\* C10: batch framing and serialized emission.  In every reachable state of
\* the connection, the messages sent so far are query-results, pongs and
\* batches: each projection's view-line messages come uninterrupted and are
\* followed by one view-lines-count whose count is their number, and every
\* projection made has its view-lines-count on the wire unless it is still
\* being sent or the connection has ended (a failed send ends send_update).
C10_BatchFraming ==
    /\ Framed(wire, {})
    /\ \A b \in 1..projections :
        \/ \E k \in DOMAIN wire : wire[k].type = "view-lines-count" /\ wire[k].batch = b
        \/ \E t \in Threads : pc[t] = "send" /\ local[t].batch = b
        \/ socket # "open"

\* the handler waits for the mutex with a query while the push thread is in
\* the middle of a batch of two view-lines, after an earlier complete batch
C10_Witness ==
    /\ pc.push = "send"
    /\ local.push.count = 2
    /\ Len(local.push.updates) = 1
    /\ pc.handler = "lock"
    /\ message.type = "query"
    /\ socket = "open"
    /\ wire # << >>
    /\ wire[Len(wire)].type = "view-line"
    /\ \E k \in DOMAIN wire : wire[k].type = "view-lines-count"

\* the commands followed by a forced update
Commands == {"view-rect", "expand", "expand-all", "collapse", "reset-expand"}

\* the connection state holds what command m asks for
CommandApplied(m) ==
    IF m.type = "view-rect" THEN view_rect = m.view_rect
    ELSE /\ m.id \in DOMAIN expanded
         /\ expanded[m.id] = CommandExpandedState(m.type)

\* the projection a thread is sending was computed from the viewport and
\* expand map the connection holds now
SentFromCurrentState(t) ==
    /\ computed[local[t].batch].thread = t
    /\ computed[local[t].batch].view_rect = view_rect
    /\ computed[local[t].batch].expanded = expanded

PushLeavesCheck == pc.push = "update" /\ pc'.push # "update"

\* C12: redundant projections are skipped.  A non-forced send_update that
\* finds last_update_generation equal to the store generation returns
\* without projecting or sending; every projection leaves
\* last_update_generation at the generation it projected, and it stays there
\* while the batch is sent; hence a projection of the push thread is always
\* of another generation than the projection before it (0 before the first).
C12_RedundantSkipped ==
    /\ [][/\ (PushLeavesCheck /\ last_update_generation = generation) =>
                (wire' = wire /\ computed' = computed /\ pc'.push = "sleep")
          /\ computed' # computed =>
                /\ last_update_generation' = generation
                /\ computed'[Len(computed')].generation = generation]_vars
    /\ [](\A t \in Threads : pc[t] = "send" =>
                /\ last_update_generation = generation
                /\ computed[local[t].batch].generation = generation)
    /\ [](\A k \in DOMAIN computed : computed[k].thread = "push" =>
                computed[k].generation # (IF k = 1 THEN 0 ELSE computed[k - 1].generation))

\* after a forced update of the handler at a generation other than 0 has
\* been sent, the push thread is in send_update and finds nothing new
C12_Witness ==
    /\ pc.push = "update"
    /\ pc.handler = "recv"
    /\ generation > 0
    /\ last_update_generation = generation
    /\ computed # << >>
    /\ computed[Len(computed)].thread = "handler"
    /\ wire # << >>
    /\ wire[Len(wire)].type = "view-lines-count"

\* the steps of the two threads that do not wait for the client: the
\* scheduler runs a thread that can run, and a send on the socket returns
ThreadStep(t) ==
    \/ Lock(t)
    \/ SendViewLine(t)
    \/ SendViewLinesCount(t)

PushStep == PushCheck \/ PushSleep \/ ThreadStep("push")
HandlerStep ==
    \/ HandleViewRect \/ HandleExpand \/ HandleQuery \/ HandlePing
    \/ HandlerJoin \/ ReceiveError \/ ThreadStep("handler")

\* WF_vars(SendUpdateBegin(t)) with its ENABLED written out: the step is
\* enabled exactly when thread t stands at the start of send_update
ProjectionStep(t) ==
    []<>(pc[t] # "update") \/ []<><<SendUpdateBegin(t)>>_vars

SpecServerLive ==
    /\ Init
    /\ [][NextServer]_vars
    /\ WF_vars(PushStep)
    /\ WF_vars(HandlerStep)
    /\ ProjectionStep("push")
    /\ ProjectionStep("handler")

\* a complete batch projected from generation g or later is on the wire and
\* last_update_generation has reached g
BatchSentSince(g) ==
    /\ last_update_generation >= g
    /\ \E k \in DOMAIN wire :
            /\ wire[k].type = "view-lines-count"
            /\ computed[wire[k].batch].generation >= g

\* C13: push liveness.  Whenever the store generation is g and differs from
\* last_update_generation on an open connection, eventually a complete
\* batch (view-lines and view-lines-count) projected from generation g or
\* later has been sent and last_update_generation has reached g, unless the
\* connection ends.
C13_PushLiveness ==
    \A g \in 1..(MaxServerSpans + 1) :
        (socket = "open" /\ generation = g /\ last_update_generation # g)
            ~> (socket # "open" \/ BatchSentSince(g))

\* the push thread enters send_update (it has taken the lock)
PushStartsSendUpdate == pc.push # "update" /\ pc'.push = "update"

\* once the shutdown flag is set the push thread starts no send_update
NoSendUpdateAfterFlag == [][should_shutdown => ~PushStartsSendUpdate]_vars

\* after Close the push thread ends and the handler's join returns
JoinReturns ==
    should_shutdown ~>
        (pc.push \in {"done", "panicked"} /\ pc.handler \in {"closed", "panicked"})

\* C14: Close handling.  The Close arm sets should_shutdown and joins the
\* push thread; from the moment the flag is set the push thread starts no
\* further send_update, and it terminates so that the join returns.
C14_CloseHandling == NoSendUpdateAfterFlag /\ JoinReturns

\* nothing is sent on a connection whose handler has left with an error
NoSendAfterHandlerExit == [][pc.handler = "failed" => wire' = wire]_vars

\* the push thread of a connection whose handler has left with an error ends
PushStopsAfterHandlerExit ==
    (pc.handler = "failed") ~> (pc.push \in {"done", "panicked"})

\* C15: error teardown.  When the handler leaves its receive loop with an
\* error (malformed text, unknown type, id 0, socket failure) the push
\* thread is stopped, and no projection is sent on the connection after
\* the handler has exited.
C15_ErrorTeardown == NoSendAfterHandlerExit /\ PushStopsAfterHandlerExit

\* C16: no panic on client input.  Whatever well-formed command the client
\* sends (a view-rect of width 0 included), neither thread panics and the
\* ConnectionState mutex is never poisoned, so the push thread can still
\* lock it.
C16_NoPanicOnClientInput ==
    /\ mutex # "poisoned"
    /\ \A t \in Threads : pc[t] # "panicked"

(***************************************************************************)
(* compute_update as a function of the store, the view-mode map and the    *)
(* view rect: the writer commits whole batches, and computed holds the     *)
(* projection made of the store as it stands (none after a change).        *)
(***************************************************************************)
MaxProjectSpans == 3    \* spans added where single projections are examined

ProjectWidths == {1, 4}
ProjectRects ==
    {[x |-> 0, y |-> 0, width |-> 10, height |-> 10, horizontal_pixels |-> 10],
     [x |-> 0, y |-> 0, width |-> 2, height |-> 1, horizontal_pixels |-> 100],
     [x |-> 6, y |-> 0, width |-> 2, height |-> 1, horizontal_pixels |-> 100]}

\* one batch of the trace writer: a span with its self time, then
\* invalidate_outdated_spans
WriteSpanAt(limit, parent, start, width, kind) ==
    /\ ~writing
    /\ VecLen(spans) <= limit
    /\ LET id == NextIndex(spans)
           added == add_span(spans, parent, start, kind.name, kind.args)
       IN  spans' = invalidate_outdated_spans(
                        add_self_time(added, id, start, start + width),
                        add_self_time_outdated(added, add_span_outdated({}, parent), id))
    /\ computed' = << >>
    /\ UNCHANGED <<outdated, writing, calls, created, was_reset, mutated, lastBatch, span_options,
                   generation, connectionVars, threadVars, socket, wire, received, cacheVars,
                   projections>>

WriteSpan(limit, parent, width, kind) == WriteSpanAt(limit, parent, 0, width, kind)

SetProjectViewMode(id, view_mode) ==
    /\ Cardinality(DOMAIN span_options \cup {id}) <= MaxViewOptions
    /\ span_options' = set_view_mode(span_options, id, view_mode)
    /\ computed' = << >>
    /\ UNCHANGED <<storeVars, generation, connectionVars, threadVars, socket, wire,
                   received, cacheVars, projections>>

\* compute_update(&store, &rect): the result and the run are kept with the
\* rect; the memo cells the call filled stay filled
Project(rect) ==
    /\ ~writing
    /\ spans' = compute_update_read(spans, rect, span_options)
    /\ computed' = <<[rect |-> rect,
                      updates |-> compute_update(spans, rect, span_options)]>>
    /\ UNCHANGED <<outdated, writing, calls, created, was_reset, mutated, lastBatch, span_options,
                   generation, connectionVars, threadVars, socket, wire, received, cacheVars,
                   projections>>

NextProject ==
    \/ \E parent \in {NoParent} \cup SpanIndexes(spans), width \in ProjectWidths :
            WriteSpan(MaxProjectSpans, parent, width, FunctionKind)
    \/ \E r \in Range(root_spans(spans)), view_mode \in ViewModes :
            SetProjectViewMode(SpanRef_id(r), view_mode)
    \/ \E rect \in ProjectRects : Project(rect)

SpecProject == Init /\ [][NextProject]_vars

\* the ViewSpans of the lines below line 0 of a projection
LowerViewSpans(updates) ==
    UNION {Range(updates[n].spans) : n \in {m \in DOMAIN updates : updates[m].y > 0}}

\* the ids of the ViewSpans on line 0
TopIds(updates) ==
    IF updates = << >> THEN {} ELSE {v.id : v \in Range(updates[1].spans)}

\* C17: horizontal viewport clipping.  No ViewSpan on a line > 0 (span, span
\* graph or placeholder) has start > x + width*120/100 or start + w <
\* x - width*20/100 (saturating at 0), and every root span has its
\* rectangle on line 0 whatever the rect.
C17_HorizontalClipping ==
    \A k \in DOMAIN computed :
        LET rect == computed[k].rect
            updates == computed[k].updates
        IN  /\ \A v \in LowerViewSpans(updates) :
                    /\ ~(v.start > rect.x + (rect.width * 120) \div 100)
                    /\ ~(v.start + v.width
                            < (IF rect.x > (rect.width * 20) \div 100
                               THEN rect.x - (rect.width * 20) \div 100 ELSE 0))
            /\ \A r \in Range(root_spans(spans)) : SpanRef_id(r) \in TopIds(updates)

\* a root with two children of which the projection shows the second one
\* only, as an ordinary rectangle: the first one ends left of the rect
C17_Witness ==
    /\ computed # << >>
    /\ computed[1].rect.x = 6
    /\ \E r \in Range(root_spans(spans)) :
            /\ Len(children(spans, r)) = 2
            /\ Len(computed[1].updates) = 2
            /\ Len(computed[1].updates[2].spans) = 1
            /\ computed[1].updates[2].spans[1].id # 0
            /\ computed[1].updates[2].spans[1].start = 4

\* the line entries the recorded projection was emitted from
ProjectedLines(k) == compute_update_run(spans, computed[k].rect, span_options).lines

\* C27: every ViewSpan emitted for a span has the id 2 * index (even, >= 2),
\* every ViewSpan emitted for a span graph has the id 2 * index + 1 of the
\* graph's first root (odd, >= 3), Store::span on the same store decodes the
\* id to that index in the store with is_graph equal to the id's low bit, and
\* the id 0 is emitted for placeholders and for nothing else.
C27_IdRoundTrip ==
    \A k \in DOMAIN computed :
        \A n \in DOMAIN computed[k].updates :
            \A j \in DOMAIN computed[k].updates[n].spans :
                LET entry == ProjectedLines(k)[n][j]
                    id == computed[k].updates[n].spans[j].id
                    index == IF entry.ty = "Span" THEN entry.item.index
                             ELSE entry.item.graph[1].root_spans[1]
                IN  /\ id = 0 <=> entry.ty = "Placeholder"
                    /\ entry.ty = "Span" => id = 2 * index /\ id >= 2
                    /\ entry.ty = "SpanGraph" => id = 2 * index + 1 /\ id >= 3
                    /\ entry.ty # "Placeholder" =>
                            /\ index \in SpanIndexes(spans)
                            /\ Store_span(spans, id)
                                    = <<[index |-> index, is_graph |-> (id % 2 = 1)]>>

\* a projection that emitted span 1 with the id 2 on line 0 and, below it, the
\* span graph of span 2 with the id 5
C27_Witness ==
    /\ computed # << >>
    /\ Len(computed[1].updates) = 2
    /\ \E v \in Range(computed[1].updates[1].spans) : v.id = 2
    /\ \E v \in Range(computed[1].updates[2].spans) : v.id = 5

\* C25: every ViewLineUpdate that compute_update returns holds at least one
\* ViewSpan, whatever the store, the view modes and the rect.
C25_NoEmptyLine ==
    \A k \in DOMAIN computed :
        \A n \in DOMAIN computed[k].updates : computed[k].updates[n].spans # << >>

(***************************************************************************)
(* Deep traces: every span is nested in the one added before it.           *)
(***************************************************************************)
MaxDeepSpans == 11      \* spans of the nested trace

DeepWidths == {1}
DeepRects ==
    {[x |-> 0, y |-> 0, width |-> 10, height |-> 0, horizontal_pixels |-> 10],
     [x |-> 0, y |-> 0, width |-> 10, height |-> 2, horizontal_pixels |-> 10]}

SpecDeep ==
    /\ Init
    /\ [][\/ \E width \in DeepWidths :
                WriteSpan(MaxDeepSpans, NewestSpan(spans), width, FunctionKind)
          \/ \E rect \in DeepRects : Project(rect)]_vars

RECURSIVE Depth(_, _)
\* the depth of a span: 0 for a root span
Depth(sp, i) == IF sp[i].parent = NoParent THEN 0 ELSE 1 + Depth(sp, sp[i].parent)

\* the last line of a rect's vertical range
LastLine(rect) == rect.y + rect.height + 5

\* the spans handed to handle_child or expanded by the kept projection
Handled(rect) ==
    {read[2].index : read \in {e \in compute_update_run(spans, rect, span_options).reads :
                                    e[2].kind = "Span"}}

\* C18: vertical cull.  No ViewLineUpdate has y > view_rect.y +
\* view_rect.height + 5, no child of an item beyond that line is handled
\* (no span deeper than one line past it is touched), and no span deeper
\* than that line appears in a ViewLineUpdate: with height 2 that is every
\* span of depth 8 or more, depth 10 included.
C18_VerticalCull ==
    \A k \in DOMAIN computed :
        LET rect == computed[k].rect
            updates == computed[k].updates
        IN  /\ \A n \in DOMAIN updates : updates[n].y <= LastLine(rect)
            /\ \A i \in Handled(rect) : Depth(spans, i) <= LastLine(rect) + 1
            /\ \A i \in SpanIndexes(spans) :
                    Depth(spans, i) > LastLine(rect) =>
                        \A n \in DOMAIN updates :
                            \A v \in Range(updates[n].spans) : v.id # SpanRef_id(i)

\* a trace eleven spans deep projected with height 2: lines 0 to 7 each
\* hold their span, and the spans of depth 8, 9 and 10 are left out
C18_Witness ==
    /\ computed # << >>
    /\ computed[1].rect.height = 2
    /\ VecLen(spans) = 12
    /\ Depth(spans, 11) = 10
    /\ Len(computed[1].updates) = 8
    /\ \A n \in 1..8 : Len(computed[1].updates[n].spans) = 1
    /\ 9 \in Handled(computed[1].rect)
    /\ 10 \notin Handled(computed[1].rect)

(***************************************************************************)
(* Sibling traces: one root; every later span is a child of the first or   *)
(* of the second span.                                                     *)
(***************************************************************************)
MaxSiblingSpans == 4    \* spans of the sibling trace

SiblingWidths == {1, 2}
SiblingParents(sp) == IF VecLen(sp) = 1 THEN {NoParent} ELSE {1, 2} \cap SpanIndexes(sp)
SiblingRects ==
    {[x |-> 0, y |-> 0, width |-> 10, height |-> 10, horizontal_pixels |-> 10],
     [x |-> 0, y |-> 0, width |-> 10, height |-> 10, horizontal_pixels |-> 100],
     [x |-> 0, y |-> 0, width |-> 10, height |-> 10, horizontal_pixels |-> 2]}

SpecSiblings ==
    /\ Init
    /\ [][\/ \E parent \in SiblingParents(spans), width \in SiblingWidths :
                WriteSpan(MaxSiblingSpans, parent, width, FunctionKind)
          \/ \E rect \in SiblingRects : Project(rect)]_vars

\* the ViewSpans of line y of a projection
OnLine(updates, y) ==
    UNION {Range(updates[n].spans) : n \in {m \in DOMAIN updates : updates[m].y = y}}

\* where the k-th child of a span drawn at start begins
ChildStart(sp, start, cs, k) ==
    start + SumSeq([j \in 1..(k - 1) |-> corrected_total_time_val(sp, cs[j])])

\* the start pixel of the child at position k and the end pixel of the one
\* at position k + 1 lie within MIN_VISIBLE_PIXEL_SIZE of each other
Collide(sp, rect, start, cs, k) ==
    LET p1 == (ChildStart(sp, start, cs, k) * rect.horizontal_pixels) \div rect.width
        p2 == (ChildStart(sp, start, cs, k + 2) * rect.horizontal_pixels + rect.width - 1)
                    \div rect.width
    IN  p2 <= p1 + 3

\* the verdict of the claim on the children at positions k and k + 1 of a
\* span drawn as an ordinary rectangle v on line y
Coalesced(sp, rect, updates, y, v, cs, k) ==
    LET below == OnLine(updates, y + 1)
        left == cs[k]
        right == cs[k + 1]
        StaysAt(j) == \E u \in below : u.start = ChildStart(sp, v.start, cs, j)
    IN  /\ Cardinality({u \in below : u.id \in {SpanRef_id(left), SpanRef_id(right)}}) <= 1
        /\ TrueMaxDepth(sp, left) > TrueMaxDepth(sp, right) => ~StaysAt(k + 1)
        /\ TrueMaxDepth(sp, right) > TrueMaxDepth(sp, left) => ~StaysAt(k)

\* C19: pixel coalescing.  When two consecutive children of a span drawn as
\* an ordinary rectangle have the start pixel of the one and the end pixel
\* of the other within 3 pixels, at most one ordinary rectangle stands for
\* the two on their line, and the child that keeps a rectangle is the one
\* with the greater max_depth.
C19_PixelCoalescing ==
    \A c \in DOMAIN computed :
        LET rect == computed[c].rect
            updates == computed[c].updates
        IN  \A n \in DOMAIN updates : \A v \in Range(updates[n].spans) :
                \A p \in SpanIndexes(spans) :
                    v.id = SpanRef_id(p) =>
                        LET cs == children(spans, p)
                        IN  \A k \in 1..(Len(cs) - 1) :
                                Collide(spans, rect, v.start, cs, k) =>
                                    Coalesced(spans, rect, updates, updates[n].y, v, cs, k)

\* a root span whose only children are spans 2 and 3, each of width 1
TwoNarrowChildren(sp) ==
    /\ VecLen(sp) = 4
    /\ root_spans(sp) = <<1>>
    /\ children(sp, 1) = <<2, 3>>
    /\ \A c \in {2, 3} : corrected_total_time_val(sp, c) = 1

\* C20: scenario S5, first half.  A parent with two children of width 1
\* each, projected with viewport width 10 and horizontal_pixels 10, has
\* both children on line 1 as ordinary rectangles of width 1 (1 pixel):
\* neither is dropped or turned into a placeholder.
C20_TwoNarrowChildrenVisible ==
    \A c \in DOMAIN computed :
        (/\ TwoNarrowChildren(spans)
         /\ computed[c].rect.width = 10
         /\ computed[c].rect.horizontal_pixels = 10)
        => /\ \A i \in {2, 3} :
                \E v \in OnLine(computed[c].updates, 1) :
                    v.id = SpanRef_id(i) /\ v.width = 1
           /\ \A v \in OnLine(computed[c].updates, 1) : v.id # 0

\* C21: scenario S5, second half.  The two children of width 1 projected
\* with viewport width 10 and horizontal_pixels 2 have exactly one
\* rectangle on line 1; it is an ordinary rectangle carrying the id and the
\* name of one of the two children, and never that of the shallower one.
C21_OneDeeperChildVisible ==
    \A c \in DOMAIN computed :
        (/\ TwoNarrowChildren(spans)
         /\ computed[c].rect.width = 10
         /\ computed[c].rect.horizontal_pixels = 2)
        => LET below == OnLine(computed[c].updates, 1)
           IN  /\ Cardinality(below) = 1
               /\ \A v \in below :
                    \E i \in {2, 3} :
                        /\ v.id = SpanRef_id(i)
                        /\ v.text = nice_name(spans, i).title
                        /\ \A j \in {2, 3} : TrueMaxDepth(spans, j) <= TrueMaxDepth(spans, i)

\* the placeholder rectangle standing for the second of the two children
SecondChildPlaceholder == ViewSpan(0, 1, 1, << >>, << >>, 1)

\* C20 as amended: with viewport width 10 and horizontal_pixels 10 the two
\* children of width 1 cover two pixels together and are coalesced: line 1
\* holds one rectangle, a placeholder of width 1 at the start of the second
\* child, and the first child is dropped.
C20_TwoNarrowChildrenCoalesced ==
    \A c \in DOMAIN computed :
        (/\ TwoNarrowChildren(spans)
         /\ computed[c].rect.width = 10
         /\ computed[c].rect.horizontal_pixels = 10)
        => OnLine(computed[c].updates, 1) = {SecondChildPlaceholder}

C20_Witness ==
    /\ TwoNarrowChildren(spans)
    /\ computed # << >>
    /\ computed[1].rect.horizontal_pixels = 10
    /\ Len(computed[1].updates) = 2
    /\ computed[1].updates[2].spans = <<SecondChildPlaceholder>>

\* C21 as amended: with viewport width 10 and horizontal_pixels 2 the two
\* children of width 1 have exactly one rectangle on line 1; it stands for
\* the second child (the two are equally deep) and is emitted as a
\* placeholder: id 0, no category, no text; the first child is absent.
C21_OnePlaceholderLeft ==
    \A c \in DOMAIN computed :
        (/\ TwoNarrowChildren(spans)
         /\ computed[c].rect.width = 10
         /\ computed[c].rect.horizontal_pixels = 2)
        => LET below == OnLine(computed[c].updates, 1)
           IN  /\ Cardinality(below) = 1
               /\ \A v \in below :
                    /\ v.id = 0 /\ v.category = << >> /\ v.text = << >>
                    /\ v.start = ChildStart(spans, 0, children(spans, 1), 2)
                    /\ v.width = 1

C21_Witness ==
    /\ TwoNarrowChildren(spans)
    /\ computed # << >>
    /\ computed[1].rect.horizontal_pixels = 2
    /\ Len(computed[1].updates) = 2
    /\ Len(computed[1].updates[2].spans) = 1
    /\ computed[1].updates[2].spans[1].id = 0
    /\ computed[1].updates[2].spans[1].start = 1

(***************************************************************************)
(* Timed traces: spans and self times with the instants of scenario S1.    *)
(***************************************************************************)
MaxTimedSpans == 2      \* spans of the timed trace
MaxTimedSelfTimes == 2  \* add_self_time calls of the timed trace

TimedStarts == {0, 20}
TimedSelfTimes == {<<0, 100>>, <<20, 70>>}

NextTimes ==
    \/ \E parent \in {NoParent, NewestSpan(spans)}, start \in TimedStarts :
            AddSpan(MaxTimedSpans, parent, start, PlainKind)
    \/ \E i \in SpanIndexes(spans), t \in TimedSelfTimes :
            AddSelfTimeWithin(MaxTimedSelfTimes, i, t[1], t[2])
    \/ InvalidateOutdatedSpans(FALSE)
    \/ \E i \in SpanIndexes(spans) : ReadSpan(i)

SpecTimes == Init /\ [][NextTimes]_vars

\* the store of scenario S1 after the invalidation: A = span 1, B = span 2
ScenarioS1 ==
    /\ ~writing
    /\ VecLen(spans) = 3
    /\ spans[1].parent = NoParent /\ spans[1].start = 0
    /\ spans[2].parent = 1 /\ spans[2].start = 20
    /\ spans[1].events = <<SelfTimeEvent(0, 100), ChildEvent(2)>>
    /\ spans[2].events = <<SelfTimeEvent(20, 70)>>

\* C22: scenario S1.  After add_span A (start 0, top level),
\* add_self_time(A, 0, 100), add_span B under A (start 20),
\* add_self_time(B, 20, 70) and the invalidation, total_time(A) = 100,
\* self_time(A) = 100, end(A) = 100, max_depth(A) = 1 and the end of the
\* root sentinel is 100.
C22_ScenarioS1 ==
    ScenarioS1 =>
        /\ total_time_val(spans, 1) = 100
        /\ self_time(spans, 1) = 100
        /\ end_val(spans, 1) = 100
        /\ max_depth_val(spans, 1) = 1
        /\ end_val(spans, 0) = 100

\* C22 as amended: in scenario S1 the store reports self_time(A) = 100,
\* end(A) = 100 and max_depth(A) = 1, total_time(A) = 150 (the self time of
\* A plus the total time of B) and, for the root sentinel, end = u64::MAX.
C22_ScenarioS1Amended ==
    ScenarioS1 =>
        /\ self_time(spans, 1) = 100
        /\ end_val(spans, 1) = 100
        /\ max_depth_val(spans, 1) = 1
        /\ total_time_val(spans, 1) = 150
        /\ end_val(spans, 0) = U64_MAX

\* scenario S1 is built and A's accessors have been called
C22_Witness ==
    /\ ScenarioS1
    /\ spans[1].total_time = <<150>>
    /\ spans[1].end = <<100>>

\* C29: for every span but the sentinel, self_end >= start, self_end >= the
\* end of every SelfTime event of the span, self_end is the maximum of start
\* and those ends, and self_time is the sum of end - start over those events.
C29_SelfEndAndSelfTime ==
    \A i \in SpanIndexes(spans) :
        LET self_times == SelfTimeEvents(spans, i)
            ends == {spans[i].start} \cup {self_times[k].end : k \in DOMAIN self_times}
        IN  /\ spans[i].self_end >= spans[i].start
            /\ \A k \in DOMAIN self_times : spans[i].self_end >= self_times[k].end
            /\ spans[i].self_end \in ends
            /\ \A e \in ends : spans[i].self_end >= e
            /\ spans[i].self_time
                    = SumSeq([k \in DOMAIN self_times |-> self_times[k].end - self_times[k].start])

\* a span that starts at 20 took the self time (0, 100) and then (20, 70):
\* its self_end stays 100 and its self_time is 150
C29_Witness ==
    \E i \in SpanIndexes(spans) :
        /\ spans[i].start = 20
        /\ Len(SelfTimeEvents(spans, i)) = 2
        /\ SelfTimeEvents(spans, i)[2].end = 70
        /\ spans[i].self_end = 100
        /\ spans[i].self_time = 150

(***************************************************************************)
(* Queries: the handler thread answers Query messages while the trace      *)
(* grows; the span added as number n starts at 10 * n.                     *)
(***************************************************************************)
MaxQuerySpans == 3      \* spans of the queried trace

QueryKinds ==
    {[name |-> "p", args |-> << >>],
     [name |-> "q", args |-> << >>],
     [name |-> "r", args |-> <<(<<"k", "v">>), (<<"name", "f">>)>>]}
QueryIds == 1..(2 * MaxQuerySpans + 3)

NextQuery ==
    \/ \E parent \in {NoParent, NewestSpan(spans)}, kind \in QueryKinds :
            WriteSpanAt(MaxQuerySpans, parent, 10 * NextIndex(spans), 1, kind)
    \/ \E id \in QueryIds : ReceiveText([type |-> "query", id |-> id])
    \/ Lock("handler")
    \/ HandleQuery

SpecQuery == Init /\ [][NextQuery]_vars

\* the handler answers the query in hand
Answers == pc.handler = "handle" /\ message.type = "query" /\ pc'.handler # "handle"

\* the ancestor of span i at the given depth
AncestorAt(sp, i, depth) ==
    CHOOSE a \in ParentChain(sp, i) : Depth(sp, a) = depth

\* the titles of the ancestors of span i, the top-level one first
AncestorTitles(sp, i) ==
    [d \in 1..Depth(sp, i) |-> nice_name(sp, AncestorAt(sp, i, d - 1)).title]

\* C23: query path.  The answer to a Query whose id resolves to a span R
\* is one QueryResult carrying the id, R's start, R's args in stored order,
\* is_graph = the low bit of the id, and as path the nice_name titles of
\* R's ancestors from the top-level one down to R's parent (neither the
\* root sentinel nor R): ["p", "q"] for R in the chain P -> Q -> R, and
\* the empty path for a top-level span.
C23_QueryPath ==
    [][(Answers /\ message.id \div 2 \in SpanIndexes(spans)) =>
            LET R == message.id \div 2
            IN  /\ Len(wire') = Len(wire) + 1
                /\ wire'[Len(wire')] =
                        [type |-> "query-result", id |-> message.id,
                         is_graph |-> (message.id % 2 = 1),
                         start |-> spans[R].start, args |-> spans[R].args,
                         path |-> AncestorTitles(spans, R)]
                /\ (Depth(spans, R) = 0 => wire'[Len(wire')].path = << >>)
                /\ (/\ Depth(spans, R) = 2
                    /\ spans[spans[R].parent].name = "q"
                    /\ spans[spans[spans[R].parent].parent].name = "p")
                   => wire'[Len(wire')].path = <<(<<"p">>), (<<"q">>)>>]_vars

\* the chain P -> Q -> R was queried for R and answered with ["p", "q"],
\* and a span below an ancestor titled by its name argument was answered too
C23_Witness ==
    /\ wire # << >>
    /\ wire[1].type = "query-result"
    /\ wire[1].id = 6
    /\ wire[1].path = <<(<<"p">>), (<<"q">>)>>
    /\ wire[1].start = 30
    /\ wire[1].args = <<(<<"k", "v">>), (<<"name", "f">>)>>

\* C24: a query whose id decodes to an index that is not in the store is
\* answered by exactly one QueryResult with is_graph = false, start = 0, empty
\* args and an empty path; the handler goes back to receiving, the socket
\* stays open, and the view rect, the expand map and last_update_generation
\* are left as they were
C24_QueryMiss ==
    [][(Answers /\ message.id \div 2 \notin DOMAIN spans) =>
          /\ Len(wire') = Len(wire) + 1
          /\ wire'[Len(wire')] = [type |-> "query-result", id |-> message.id,
                                  is_graph |-> FALSE, start |-> 0, args |-> << >>,
                                  path |-> << >>]
          /\ \A n \in DOMAIN wire : wire'[n] = wire[n]
          /\ pc'.handler = "recv"
          /\ socket' = "open"
          /\ mutex' = "free"
          /\ UNCHANGED <<view_rect, expanded, span_options, last_update_generation,
                         should_shutdown>>]_vars

\* an odd id past the newest span of a store of two spans was queried and
\* answered as a miss
C24_Witness ==
    /\ VecLen(spans) = 3
    /\ wire # << >>
    /\ wire[Len(wire)] = [type |-> "query-result", id |-> 7, is_graph |-> FALSE,
                          start |-> 0, args |-> << >>, path |-> << >>]
    /\ pc.handler = "recv"

(***************************************************************************)
(* turborepo-cache: puts, lookups and fetches on one FSCache, and the      *)
(* build that removes and rewrites the files under the anchor.             *)
(***************************************************************************)
ServerIdle == <<storeVars, span_options, generation, connectionVars, threadVars, socket,
                wire, received, projections, computed>>

Put(hash, files, duration) ==
    /\ \A k \in DOMAIN files : PathExists(anchor_files, files[k])
    /\ cache_directory' = FSCache_put(cache_directory, anchor_files, hash, files, duration)
    /\ last_call' = [op |-> "put", hash |-> hash, files |-> files, duration |-> duration,
                     archived |-> CacheWriter(anchor_files, files)]
    /\ UNCHANGED <<anchor_files, ServerIdle>>

Exists(hash) ==
    /\ last_call' = [op |-> "exists", hash |-> hash,
                     result |-> FSCache_exists(cache_directory, hash)]
    /\ UNCHANGED <<cache_directory, anchor_files, ServerIdle>>

Fetch(hash) ==
    /\ anchor_files' = FSCache_fetch(cache_directory, anchor_files, hash).anchor
    /\ last_call' = [op |-> "fetch", hash |-> hash,
                     result |-> [FSCache_fetch(cache_directory, anchor_files, hash)
                                    EXCEPT !.anchor = << >>]]
    /\ UNCHANGED <<cache_directory, ServerIdle>>

\* the build writes an output file / a clean removes it
WriteOutput(path, contents) ==
    /\ anchor_files' = WriteFile(anchor_files, path, contents)
    /\ last_call' = NoCall
    /\ UNCHANGED <<cache_directory, ServerIdle>>

RemoveOutput(path) ==
    /\ PathExists(anchor_files, path)
    /\ anchor_files' = [p \in DOMAIN anchor_files \ {path} |-> anchor_files[p]]
    /\ last_call' = NoCall
    /\ UNCHANGED <<cache_directory, ServerIdle>>

NextCache ==
    \/ \E hash \in CacheHashes, files \in CacheFileLists, duration \in CacheDurations :
            Put(hash, files, duration)
    \/ \E hash \in CacheHashes : Exists(hash)
    \/ \E hash \in CacheHashes : Fetch(hash)
    \/ \E path \in AnchorPaths, contents \in AnchorContents : WriteOutput(path, contents)
    \/ \E path \in AnchorPaths : RemoveOutput(path)

SpecCache == Init /\ [][NextCache]_vars

\* what round_trip_test asserts of exists and fetch after put(anchor, hash,
\* files, duration), files holding the contents archived
RoundTrips(hash, files, duration, archived) ==
    LET fetched == FSCache_fetch(cache_directory, anchor_files, hash)
    IN  /\ FSCache_exists(cache_directory, hash) = <<CacheHitMetadata(duration)>>
        /\ fetched.result = "Some"
        /\ fetched.status = CacheHitMetadata(duration)
        /\ fetched.files = files
        /\ \A k \in DOMAIN files :
                /\ PathExists(fetched.anchor, files[k])
                /\ fetched.anchor[files[k]] = archived[k].contents

\* C26: cache round trip.  Before any put exists(hash) returns None; after
\* put(anchor, hash, files, duration) has succeeded, exists(hash) returns a hit
\* with time_saved = duration and source = Local, and fetch(anchor, hash)
\* returns the same metadata with the files in the order they were put, each
\* restored under the anchor.
C26_CacheRoundTrip ==
    /\ cache_directory = << >> => \A hash \in CacheHashes :
            FSCache_exists(cache_directory, hash) = << >>
    /\ last_call.op = "put" =>
            RoundTrips(last_call.hash, last_call.files, last_call.duration, last_call.archived)

\* C28: in every store the add_span calls build, a span with a parent starts
\* no earlier than its parent.
C28_ParentStartsFirst ==
    \A i \in SpanIndexes(spans) :
        spans[i].parent # NoParent => spans[spans[i].parent].start <= spans[i].start

(***************************************************************************)
(* View modes: projections of small traces under every stored entry.       *)
(***************************************************************************)
MaxModeSpans == 3
ModeViewModes ==
    {<< >>} \cup {<<[mode |-> mode, inherit |-> inherit]>> :
                    mode \in {RawSpans(FALSE), Aggregated(FALSE)}, inherit \in BOOLEAN}
ModeIds == {2, 4, 5}
\* wide enough for every rectangle: nothing is culled, no two rectangles collide
ModeRect == [x |-> 0, y |-> 0, width |-> 10, height |-> 10, horizontal_pixels |-> 100]

NextModes ==
    \/ \E parent \in (IF VecLen(spans) = 1 THEN {NoParent} ELSE SpanIndexes(spans)),
          kind \in ViewKinds(spans) :
            WriteSpan(MaxModeSpans, parent, 1, kind)
    \/ \E id \in ModeIds, view_mode \in ModeViewModes : SetProjectViewMode(id, view_mode)
    \/ Project(ModeRect)

SpecModes == Init /\ [][NextModes]_vars

RECURSIVE ExpectedNodes(_, _, _)
\* the <<line, id>> pairs of an item and what lies below it when the item is
\* given the mode inherited: the stored entry if one is set, else inherited,
\* selects the item's children; it is handed on if its inherit flag is set,
\* else inherited is
ExpectedNodes(item, inherited, line) ==
    LET id == IF item.kind = "Span" THEN 2 * item.index
              ELSE 2 * item.graph[1].root_spans[1] + 1
        stored == IF id \in DOMAIN span_options THEN span_options[id] ELSE << >>
        selected == IF stored # << >> THEN stored[1].mode ELSE inherited
        handed == IF stored # << >> /\ stored[1].inherit THEN selected ELSE inherited
        raw == selected.kind = "RawSpans"
        below ==
            IF item.kind = "Span"
            THEN (IF raw THEN {SpanItem(c) : c \in ChildrenOf(spans, item.index)}
                  ELSE {SpanGraphItem(g) : g \in Range(graph_val(spans, item.index))})
            ELSE (IF raw /\ count(item.graph[1]) > 1
                  THEN {SpanItem(c) : c \in Range(item.graph[1].root_spans)}
                  ELSE {SpanGraphItem(g) : g \in Range(graph_events(spans, item.graph[1]))})
    IN  {<<line, id>>} \cup UNION {ExpectedNodes(b, handed, line + 1) : b \in below}

EmittedNodes(updates) ==
    UNION {{<<updates[n].y, v.id>> : v \in Range(updates[n].spans)} : n \in DOMAIN updates}

\* the entries that hold a view mode
SetEntries(options) == [id \in {k \in DOMAIN options : options[k] # << >>} |-> options[id]]

\* C30: view mode resolution.  A projected node selects the (mode, inherit)
\* entry stored for its id if one is set and the mode it inherits otherwise
\* (RawSpans unsorted at the roots); a span's children are its child spans
\* under RawSpans and the span graphs of its aggregation under Aggregated;
\* the children inherit the selected mode if inherit is set and the mode the
\* node inherited otherwise; an entry reset to None projects like no entry.
C30_ViewModeResolution ==
    \A k \in DOMAIN computed :
        /\ EmittedNodes(computed[k].updates)
                = UNION {ExpectedNodes(SpanItem(r), RawSpans(FALSE), 0) :
                            r \in Range(root_spans(spans))}
        /\ computed[k].updates
                = compute_update(spans, computed[k].rect, SetEntries(span_options))

\* span 1 holds (Aggregated, inherit = false) and has two children of one
\* name: line 1 shows their span graph, which inherits RawSpans and shows
\* the two spans on line 2
C30_Witness ==
    /\ computed # << >>
    /\ 2 \in DOMAIN span_options
    /\ span_options[2] = <<[mode |-> Aggregated(FALSE), inherit |-> FALSE]>>
    /\ EmittedNodes(computed[1].updates) = {<<0, 2>>, <<1, 5>>, <<2, 4>>, <<2, 6>>}

(***************************************************************************)
(* Commands and the projections they trigger.                              *)
(***************************************************************************)
MutationCommands == {"view-rect", "expand", "expand-all", "collapse", "reset-expand"}

\* the handler leaves the match with a mutation command: send_update(true)
\* is what it does next, and nothing was sent or projected by the match
CommandStartsUpdate ==
    [][(pc.handler = "handle" /\ message.type \in MutationCommands
            /\ pc'.handler # "handle")
        => /\ pc'.handler = "update"
           /\ wire' = wire
           /\ projections' = projections]_vars

\* send_update(true) projects whatever the generations are
UpdateIsForced ==
    [][(pc.handler = "update" /\ pc'.handler # "update")
        => /\ pc'.handler = "send"
           /\ projections' = projections + 1
           /\ local'.handler.batch = projections'
           /\ local'.handler.count = Len(local'.handler.updates)]_vars

\* on an open socket the batch ends with its view-lines-count and the
\* handler goes back to receiving
BatchIsCompleted ==
    [][(pc.handler = "send" /\ pc'.handler # "send" /\ socket = "open")
        => /\ pc'.handler = "recv"
           /\ wire' = Append(wire, ViewLinesCount(local.handler.count, local.handler.batch))]_vars

\* the handler projects nowhere else
NoOtherHandlerProjection ==
    [][(projections' # projections /\ pc.push = pc'.push) => pc.handler = "update"]_vars

\* a Query on an open socket: one query-result, no projection
QueryAnswersOnly ==
    [][(pc.handler = "handle" /\ message.type = "query" /\ pc'.handler # "handle"
            /\ socket = "open")
        => /\ pc'.handler = "recv"
           /\ Len(wire') = Len(wire) + 1
           /\ wire'[Len(wire')].type = "query-result"
           /\ \A n \in DOMAIN wire : wire'[n] = wire[n]
           /\ projections' = projections]_vars

\* C31: every ViewRect, Expand, ExpandAll, Collapse and ResetExpand command
\* triggers exactly one forced projection batch, whatever the store
\* generation and last_update_generation are, and a Query command sends
\* exactly one query-result and triggers no projection batch.
C31_CommandsForceOneBatch ==
    /\ CommandStartsUpdate
    /\ UpdateIsForced
    /\ BatchIsCompleted
    /\ NoOtherHandlerProjection
    /\ QueryAnswersOnly

(***************************************************************************)
(* Placeholder chains: any tree of spans of width 1 under one root, shown  *)
(* with raw spans: all siblings collide at 1 pixel per 5 units, the narrow *)
(* ones only at 1 pixel per unit.                                          *)
(***************************************************************************)
MaxChainSpans == 6      \* spans of the tree

ChainRects ==
    {[x |-> 0, y |-> 0, width |-> 10, height |-> 10, horizontal_pixels |-> 2],
     [x |-> 0, y |-> 0, width |-> 10, height |-> 10, horizontal_pixels |-> 10]}

NextChains ==
    \/ \E parent \in (IF VecLen(spans) = 1 THEN {NoParent} ELSE SpanIndexes(spans)) :
            WriteSpan(MaxChainSpans, parent, 1, FunctionKind)
    \/ \E rect \in ChainRects : Project(rect)

SpecChains == Init /\ [][NextChains]_vars

RECURSIVE IsBelow(_, _, _)
\* span i lies in the subtree of span a, below a
IsBelow(sp, i, a) ==
    /\ sp[i].parent # NoParent
    /\ (sp[i].parent = a \/ IsBelow(sp, sp[i].parent, a))

ResetLeavesRootOnly ==
    [][Reset =>
        /\ DOMAIN spans' = {0}
        /\ spans'[0].events = << >>
        /\ root_spans(spans') = << >>
        /\ \A i \in SpanIndexes(spans) :
                /\ Store_span(spans', SpanRef_id(i)) = << >>
                /\ Store_span(spans', SpanGraphRef_id(i)) = << >>
        /\ NextIndex(spans') = 1]_vars

\* add_span on a store that holds the root sentinel alone, reset or new
FirstSpanHasIndexOne ==
    [][(VecLen(spans) = 1 /\ VecLen(spans') > 1) =>
        /\ DOMAIN spans' = {0, 1}
        /\ created' = <<[index |-> 1, parent |-> spans'[1].parent, start |-> spans'[1].start,
                         name |-> spans'[1].name, args |-> spans'[1].args]>>
        /\ spans'[0].events = <<ChildEvent(1)>>
        /\ root_spans(spans') = <<1>>]_vars

\* C33: reset() leaves the store holding only the root sentinel with no
\* events: root_spans() is empty, Store::span resolves no id of a span
\* added before the reset, and the next add_span returns index 1 again.
C33_ResetEmptiesStore == ResetLeavesRootOnly /\ FirstSpanHasIndexOne

\* a store that was reset and then given a span: span 1 is its only span, a
\* root without events
C33_Witness ==
    /\ DOMAIN spans = {0, 1}
    /\ was_reset
    /\ spans[1].events = << >>
    /\ root_spans(spans) = <<1>>
    /\ Len(created) = 1

\* C34: the latest put wins.  After any sequence of successful put calls for
\* one hash, the metadata file parses to the hash and the duration of the
\* most recent put, and exists(hash) and fetch(hash) report that duration as
\* time_saved, also when the new metadata JSON is shorter than the old one.
C34_LatestPutWins ==
    last_call.op = "put" =>
        LET fetched == FSCache_fetch(cache_directory, anchor_files, last_call.hash)
        IN  /\ CacheMetadata_read(cache_directory, CachePath(last_call.hash, "-meta.json"))
                    = <<[hash |-> last_call.hash, duration |-> last_call.duration]>>
            /\ FSCache_exists(cache_directory, last_call.hash)
                    = <<CacheHitMetadata(last_call.duration)>>
            /\ fetched.result = "Some"
            /\ fetched.status.time_saved = last_call.duration

(***************************************************************************)
(* Layout: roots of self time 1 starting at 0 or 5, below them spans of    *)
(* self time 1 or 4 under two names, and a view mode on the first root.    *)
(***************************************************************************)
MaxLayoutSpans == 3     \* spans laid out

LayoutStarts == {0, 5}
LayoutWidths == {1, 4}
LayoutViewModes ==
    {<<[mode |-> mode, inherit |-> TRUE]>> :
        mode \in {RawSpans(TRUE), Aggregated(TRUE)}}
LayoutRects ==
    {[x |-> 0, y |-> 0, width |-> 20, height |-> 10, horizontal_pixels |-> 20],
     [x |-> 0, y |-> 0, width |-> 20, height |-> 10, horizontal_pixels |-> 200]}

NextLayout ==
    \/ \E parent \in {NoParent} \cup SpanIndexes(spans), kind \in ViewKinds(spans) :
            \E start \in (IF parent = NoParent THEN LayoutStarts ELSE {spans[parent].start}),
               width \in (IF parent = NoParent THEN {1} ELSE LayoutWidths) :
                WriteSpanAt(MaxLayoutSpans, parent, start, width, kind)
    \/ \E view_mode \in LayoutViewModes : SetProjectViewMode(SpanRef_id(1), view_mode)
    \/ \E rect \in LayoutRects : Project(rect)

SpecLayout == Init /\ [][NextLayout]_vars

\* the items an item can hand to handle_child, under raw spans or aggregated
AnyChildItems(sp, item) ==
    Range(ChildItems(sp, << >>, item, RawSpans(FALSE)))
        \cup Range(ChildItems(sp, << >>, item, Aggregated(FALSE)))

\* within a line the rectangles stand in x order and do not overlap
LineInOrder(line) ==
    \A p \in DOMAIN line :
        p > 1 => line[p].start >= line[p - 1].start + line[p - 1].width

\* a rectangle of line n + 1 lies inside the rectangle of line n it was
\* derived from
InsideParent(sp, above, line) ==
    \A q \in DOMAIN line :
        /\ \E p \in DOMAIN above : line[q].item \in AnyChildItems(sp, above[p].item)
        /\ \A p \in DOMAIN above :
                line[q].item \in AnyChildItems(sp, above[p].item) =>
                    /\ above[p].start <= line[q].start
                    /\ line[q].start + line[q].width <= above[p].start + above[p].width

\* line 0: the roots in ascending order of end, each at the greater of its
\* start and the end of the root placed before it
RootsPlaced(sp, line) ==
    /\ \A p \in DOMAIN line :
            /\ line[p].ty = "Span"
            /\ line[p].item.index \in Range(root_spans(sp))
            /\ line[p].width = corrected_total_time_val(sp, line[p].item.index)
            /\ line[p].start = Max(sp[line[p].item.index].start,
                                   IF p = 1 THEN 0
                                   ELSE line[p - 1].start + line[p - 1].width)
            /\ p > 1 => end_val(sp, line[p - 1].item.index) <= end_val(sp, line[p].item.index)
    /\ {line[p].item.index : p \in DOMAIN line} = Range(root_spans(sp))

\* C35: layout containment.  In every projection the rectangles of a line
\* stand in non-decreasing x order without overlap (each x >= previous x +
\* previous w), every rectangle of line n + 1 lies inside the horizontal
\* extent of the rectangle of line n it was derived from, and on line 0
\* each root stands at max(its start, end of the root placed before it),
\* the roots taken in ascending order of end.
C35_LayoutContainment ==
    \A k \in DOMAIN computed :
        LET lines == ProjectedLines(k)
        IN  /\ \A n \in DOMAIN lines : LineInOrder(lines[n])
            /\ \A n \in DOMAIN lines : n > 1 => InsideParent(spans, lines[n - 1], lines[n])
            /\ lines # << >> => RootsPlaced(spans, lines[1])

\* root 1 starts at 5 and root 2, added later, at 0 with self time 1: line 0
\* shows root 2 at 0 and then, after a gap, root 1 at 5; root 1 is shown
\* aggregated and the span graph of its child lies inside it on line 1
C35_Witness ==
    /\ computed # << >>
    /\ SpanRef_id(1) \in DOMAIN span_options
    /\ span_options[SpanRef_id(1)] = <<[mode |-> Aggregated(TRUE), inherit |-> TRUE]>>
    /\ LET lines == ProjectedLines(1)
       IN  /\ Len(lines) = 2
           /\ Len(lines[1]) = 2
           /\ lines[1][1].item = SpanItem(2) /\ lines[1][1].start = 0 /\ lines[1][1].width = 1
           /\ lines[1][2].item = SpanItem(1) /\ lines[1][2].start = 5 /\ lines[1][2].width = 5
           /\ Len(lines[2]) = 1
           /\ lines[2][1].ty = "SpanGraph" /\ lines[2][1].start = 5 /\ lines[2][1].width = 4

\* The mutex wakes a thread blocked in state.lock() when the lock is
\* released: the push thread sleeps 500 ms and the handler waits for the
\* next client message before either asks for the lock again, so a waiting
\* thread that finds the lock free again and again takes it.
SpecServerFair ==
    /\ SpecServerLive
    /\ \A t \in Threads : SF_vars(Lock(t))

\* the state lock is not held by a thread that sleeps, waits for a client
\* message or joins the other thread
NoLockWhileBlocked ==
    /\ pc.push \in {"sleep", "check", "done"} => mutex # "push"
    /\ pc.handler \in {"recv", "join", "closed", "failed"} => mutex # "handler"

\* the store's read guard is held inside the state lock only
ReadGuardInsideLock == \A t \in Threads : pc[t] = "send" => mutex = t

\* no thread waits in state.lock() for ever: the call returns, with the guard
\* or with the PoisonError of a mutex whose holder panicked
LockReturns == \A t \in Threads : []<>(pc[t] # "lock")

\* no thread keeps the lock for ever
LockReleased == []<>(mutex \notin Threads)

\* inner_thread.join() returns
JoinEnds == []<>(pc.handler # "join")

\* C36: deadlock freedom.  The state lock is never held while a thread
\* sleeps, waits for a client message or joins the other thread; the store
\* read lock is taken only inside the state lock; so, while sends complete,
\* every lock acquisition is eventually granted, every holder releases the
\* lock, and the join of the Close arm returns.
C36_NoDeadlock ==
    /\ [](NoLockWhileBlocked /\ ReadGuardInsideLock)
    /\ LockReturns
    /\ LockReleased
    /\ JoinEnds

\* the push thread sends a batch under the lock and the read guard while
\* the handler waits for the lock with a command
C36_Witness ==
    /\ pc.push = "send"
    /\ mutex = "push"
    /\ pc.handler = "lock"
    /\ message.type = "view-rect"

\* the <<line, position>> pairs of the ViewSpans of a projection
Cells(updates) ==
    UNION {{<<n, p>> : p \in DOMAIN updates[n].spans} : n \in DOMAIN updates}

\* C37: id uniqueness.  Within one projection no two ViewSpans other than
\* placeholders carry the same id: a span is emitted at most once as a span
\* rectangle, and no two span-graph rectangles share their first root span.
C37_UniqueIds ==
    \A k \in DOMAIN computed :
        LET updates == computed[k].updates
        IN  \A a, b \in Cells(updates) :
                (/\ updates[a[1]].spans[a[2]].id = updates[b[1]].spans[b[2]].id
                 /\ updates[a[1]].spans[a[2]].id # 0) => a = b

\* spans 2 and 3 are shown twice over: as the span graph 5 of line 1, whose
\* first root span is span 2, and as the spans 4 and 6 of line 2
C37_Witness ==
    /\ computed # << >>
    /\ Len(computed[1].updates) = 3
    /\ Len(computed[1].updates[2].spans) = 1
    /\ computed[1].updates[2].spans[1].id = SpanGraphRef_id(2)
    /\ computed[1].updates[2].spans[1].count = 2
    /\ [p \in DOMAIN computed[1].updates[3].spans |-> computed[1].updates[3].spans[p].id]
            = <<SpanRef_id(2), SpanRef_id(3)>>

=============================================================================
